---------------------------- MODULE Spec2Model ----------------------------
(***************************************************************************)
(* Model of the gbm_org_analysis extraction / reshaping / normalization   *)
(* engine: GbmInvasion.py, GbmInvasion2.py, gbm_org_analysis/extract.py   *)
(* and gbm_org_analysis/integrate.py.                                      *)
(*                                                                         *)
(* Strings are sequences of one-character strings, so that startswith,    *)
(* slicing (col[:-5]), split and get_group act as in the source.          *)
(* A Python dict is a sequence of <<key, value>> pairs in insertion order.*)
(* A pandas DataFrame is a sequence of columns [name, vals]; every column *)
(* has the same number of rows and a missing cell is NaN.                 *)
(***************************************************************************)
EXTENDS Integers, Sequences, FiniteSets, TLC

(***************************************************************************)
(* Bounds of the model                                                     *)
(***************************************************************************)
\* number of files a glob pattern may discover
MaxFiles == 3

\* number of distances a file may hold when its contents are arbitrary
MaxLen == 2

\* number of replicates a merge may take
MaxReps == 3

\* number of equal distances that precede the last distance of a long export
MaxRun == 10

\* number of rows of a table handed to a statistical test
MaxRows == 3

(***************************************************************************)
(* Strings                                                                 *)
(***************************************************************************)
\* the characters of the model in code point order
Ascii ==
  << "+", "-", ".", "0", "1", "2", "3", "4", "5", "6", "7", "8", "9", "A", "B",
     "C", "D", "J", "K", "M", "N", "O", "Q", "S", "T", "V", "_", "a", "b", "c",
     "d", "e", "g", "h", "i", "l", "m", "n", "o", "p", "r", "s", "t", "u", "v",
     "y" >>

Ord(c) == CHOOSE i \in 1..Len(Ascii) : Ascii[i] = c

Digits == << "0", "1", "2", "3", "4", "5", "6", "7", "8", "9" >>

RECURSIVE Str(_)
\* str(n) for n >= 0
Str(n) == IF n < 10 THEN << Digits[n + 1] >>
          ELSE Str(n \div 10) \o << Digits[(n % 10) + 1] >>

IsDigit(c) == \E i \in 1..10 : Digits[i] = c

DigitVal(c) == (CHOOSE i \in 1..10 : Digits[i] = c) - 1

StartsWith(s, p) == Len(p) <= Len(s) /\ SubSeq(s, 1, Len(p)) = p

EndsWith(s, p) == Len(p) <= Len(s) /\ SubSeq(s, Len(s) - Len(p) + 1, Len(s)) = p

\* p in s
Contains(s, p) == \E i \in 0..(Len(s) - Len(p)) : SubSeq(s, i + 1, i + Len(p)) = p

\* s[:-k]
DropLast(s, k) == SubSeq(s, 1, Len(s) - k)

\* s[-k:]
TakeLast(s, k) == IF Len(s) <= k THEN s ELSE SubSeq(s, Len(s) - k + 1, Len(s))

\* s.index(c, from): the first position >= from (1-based) holding c, 0 if none
IndexFrom(s, c, from) ==
  IF \E i \in from..Len(s) : s[i] = c
  THEN CHOOSE i \in from..Len(s) : s[i] = c /\ \A j \in from..(i - 1) : s[j] # c
  ELSE 0

RECURSIVE Split(_, _)
\* s.split(sep) for a one-character separator
Split(s, sep) ==
  LET p == IndexFrom(s, sep, 1)
  IN  IF p = 0 THEN << s >>
      ELSE << SubSeq(s, 1, p - 1) >> \o Split(SubSeq(s, p + 1, Len(s)), sep)

RECURSIVE StrLess(_, _)
\* s < t, Python's ordering of str
StrLess(s, t) ==
  IF t = << >> THEN FALSE
  ELSE IF s = << >> THEN TRUE
  ELSE IF s[1] # t[1] THEN Ord(s[1]) < Ord(t[1])
  ELSE StrLess(Tail(s), Tail(t))

(***************************************************************************)
(* Lists                                                                   *)
(***************************************************************************)
RECURSIVE Flatten(_)
Flatten(ss) == IF ss = << >> THEN << >> ELSE Head(ss) \o Flatten(Tail(ss))

RECURSIVE SumSeq(_)
SumSeq(s) == IF s = << >> THEN 0 ELSE Head(s) + SumSeq(Tail(s))

Range(s) == { s[i] : i \in 1..Len(s) }

InList(x, s) == \E i \in 1..Len(s) : s[i] = x

\* the elements of s without repetition, first occurrences kept
RECURSIVE Dedup(_)
Dedup(s) ==
  IF s = << >> THEN << >>
  ELSE LET r == Dedup(SubSeq(s, 1, Len(s) - 1))
       IN  IF InList(s[Len(s)], r) THEN r ELSE Append(r, s[Len(s)])

\* sorted(list of str)
RECURSIVE SortedStrs(_)
SortedStrs(S) ==
  IF S = {} THEN << >>
  ELSE LET m == CHOOSE x \in S : \A y \in S \ {x} : StrLess(x, y)
       IN  << m >> \o SortedStrs(S \ {m})

\* all sequences of distinct elements of S of length 1..n
RECURSIVE Arrangements(_, _)
Arrangements(S, n) ==
  IF n = 0 THEN { << >> }
  ELSE LET shorter == Arrangements(S, n - 1)
       IN  shorter \cup
           UNION { { Append(a, x) : x \in S \ Range(a) } :
                   a \in { b \in shorter : Len(b) = n - 1 } }

Distinct(s) == \A i, j \in 1..Len(s) : i # j => s[i] # s[j]

(***************************************************************************)
(* Floats: a missing cell, and quotients kept as exact fractions           *)
(***************************************************************************)
\* numpy.nan, the padding of a DataFrame column
NaN == 0 - 1000

IsNaN(x) == x = NaN

\* [x for x in full if str(x) != "nan"]
DropNaN(s) == SelectSeq(s, LAMBDA x : ~IsNaN(x))

\* a / b with a, b int: <<a, b>>; nan if an operand is nan
NaNQ == << 0, 0, "nan" >>

Quot(a, b) == IF IsNaN(a) \/ IsNaN(b) THEN NaNQ ELSE << a, b, "q" >>

IsNaNQ(q) == q[3] = "nan"

\* q1 == q2 as floats (nan equals nothing, itself included)
QEq(q1, q2) ==
  /\ ~IsNaNQ(q1)
  /\ ~IsNaNQ(q2)
  /\ q1[1] * q2[2] = q2[1] * q1[2]
  /\ (q1[2] = 0) = (q2[2] = 0)

\* i / val with i an int cell (or nan) and val a float
DivQ(i, val) ==
  IF IsNaN(i) \/ IsNaNQ(val) \/ (i * val[2] = 0 /\ val[1] = 0) THEN NaNQ
  ELSE << i * val[2], val[1], "q" >>

\* two float cells are the same cell: both nan, or equal numbers
SameQ(q1, q2) == (IsNaNQ(q1) /\ IsNaNQ(q2)) \/ QEq(q1, q2)

(***************************************************************************)
(* dict (insertion ordered)                                                *)
(***************************************************************************)
DictKeys(d) == [ i \in 1..Len(d) |-> d[i][1] ]

DictHas(d, k) == \E i \in 1..Len(d) : d[i][1] = k

DictGet(d, k) == d[CHOOSE i \in 1..Len(d) : d[i][1] = k][2]

\* d.update({k: v}): an existing key keeps its position
DictUpdate(d, k, v) ==
  IF DictHas(d, k)
  THEN [ i \in 1..Len(d) |-> IF d[i][1] = k THEN << k, v >> ELSE d[i] ]
  ELSE Append(d, << k, v >>)

\* del d[k]
DictDel(d, k) == SelectSeq(d, LAMBDA e : e[1] # k)

(***************************************************************************)
(* pandas.DataFrame                                                        *)
(***************************************************************************)
Max(S) == CHOOSE x \in S : \A y \in S : y <= x

Min(S) == CHOOSE x \in S : \A y \in S : x <= y

Pad(v, n) == [ i \in 1..n |-> IF i <= Len(v) THEN v[i] ELSE NaN ]

NRows(df) == IF df = << >> THEN 0 ELSE Len(df[1].vals)

Columns(df) == [ i \in 1..Len(df) |-> df[i].name ]

HasCol(df, c) == \E i \in 1..Len(df) : df[i].name = c

\* df[c] for a column label that occurs once
Col(df, c) == df[CHOOSE i \in 1..Len(df) : df[i].name = c].vals

\* pd.DataFrame.from_dict(dct, orient="index").transpose()
FromDict(dct) ==
  LET n == IF dct = << >> THEN 0 ELSE Max({ Len(dct[i][2]) : i \in 1..Len(dct) })
  IN  [ i \in 1..Len(dct) |-> [ name |-> dct[i][1], vals |-> Pad(dct[i][2], n) ] ]

\* df.reindex(columns=columns); columns is << >> for None, << list >> otherwise
Reindex(df, columns) ==
  IF columns = << >> THEN df
  ELSE LET cols == columns[1]
       IN  [ i \in 1..Len(cols) |->
               [ name |-> cols[i],
                 vals |-> IF HasCol(df, cols[i]) THEN Col(df, cols[i])
                          ELSE Pad(<< >>, NRows(df)) ] ]

\* pd.melt(df): one row per cell, column after column
MeltAll(df) ==
  Flatten([ i \in 1..Len(df) |->
              [ r \in 1..Len(df[i].vals) |-> << df[i].name, df[i].vals[r] >> ] ])

\* pd.melt(df, ...).dropna()
Melt(df) == SelectSeq(MeltAll(df), LAMBDA row : ~IsNaN(row[2]))

RECURSIVE SortedInts(_)
\* sorted(list of numbers)
SortedInts(s) ==
  IF s = << >> THEN << >>
  ELSE LET m == Min(Range(s))
           i == CHOOSE k \in 1..Len(s) : s[k] = m
       IN  << m >> \o SortedInts(SubSeq(s, 1, i - 1) \o SubSeq(s, i + 1, Len(s)))

\* Series.quantile(q), q = q[1] / q[2], linear interpolation over the cells
\* present: x[lo] + frac * (x[lo + 1] - x[lo]) at position q * (count - 1);
\* nan for a column without cells
Quantile(vals, q) ==
  LET x == SortedInts(DropNaN(vals))
      pos == q[1] * (Len(x) - 1)
      lo == pos \div q[2]
      r == pos % q[2]
  IN  IF x = << >> THEN NaNQ
      ELSE IF r = 0 THEN << q[2] * x[lo + 1], q[2], "q" >>
      ELSE << q[2] * x[lo + 1] + r * (x[lo + 2] - x[lo + 1]), q[2], "q" >>

\* df.count(): the number of non-missing cells of each column
Count(df) == [ i \in 1..Len(df) |-> << df[i].name, Len(DropNaN(df[i].vals)) >> ]


(***************************************************************************)
(* Names on disk (GbmInvasion.py)                                          *)
(***************************************************************************)
\* self.separator
separator == "_"

\* self.days
days == << "d", "a", "y", "s" >>

OrgPrefix == << "o", "r", "g" >>

\* "a_b_c" from << a, b, c >>
RECURSIVE Join(_)
Join(tokens) ==
  IF Len(tokens) = 1 THEN tokens[1]
  ELSE tokens[1] \o << separator >> \o Join(Tail(tokens))

\* the treatment names of the experiment; one is a prefix of the other
GroupNames == { << "A" >>, << "A", "B" >> }

\* the organoid indices a file name may carry
OrgIndices == { 1, 2 }

\* the experiment's time points, time_points = [2, 12]
TimePointChoices == { << 2, 12 >> }

\* the core and surface cutoffs, arbitrary_thresholds
ThresholdChoices == { << 2, 2 >>, << 1, 3 >> }

DayToken(t) == Str(t) \o days

OrgToken(o) == OrgPrefix \o Str(o)

\* an entry of groups_order, such as "none_2days"
Label(g, t) == Join(<< g, DayToken(t) >>)

\* the tokens that open and close the name of an exported file
DateToken == << "2", "0" >>

DtsSuffix == << "2", ".", "c", "s", "v" >>

\* the distances an export holds, negative artifacts included
RawData(g, t, o) ==
  (IF o = 1 THEN << 1, 0 - 2, 3 >> ELSE IF o = 2 THEN << 5, 0 - 1, 2 >> ELSE << o, 0 - o >>)
  \o (IF g = << "A" >> THEN << >> ELSE << 0 >>)
  \o (IF t = 2 THEN << >> ELSE << 4, 1 >>)

\* the exports a glob of dts_path may find
DtsFiles ==
  { [ name |-> Join(<< DateToken, g, DayToken(t), OrgToken(o), DtsSuffix >>),
      data |-> RawData(g, t, o) ] :
    g \in GroupNames, t \in { 2, 12 }, o \in OrgIndices }

\* the display orders a caller may declare: the groups in either order, and
\* for each group its two time points in either order
GroupOrders ==
  { << Label(gs[1], ts[1]), Label(gs[1], ts[2]), Label(gs[2], ts[1]), Label(gs[2], ts[2]) >> :
    gs \in { a \in Arrangements(GroupNames, 2) : Len(a) = 2 },
    ts \in { << 2, 12 >>, << 12, 2 >> } }

(***************************************************************************)
(* State                                                                   *)
(***************************************************************************)
VARIABLES
  pc,                   \* the statement of the running constructor or call
  glob_dts,             \* glob.glob(self.dts_path): the files in discovery order
  groups_order, time_points, arbitrary_thresholds,
  groups, dts_dict, dts_df, dts_df_tidy,
  df_cols, dfcomb_cols, ordered_groups, ordered_all,
  dts_dfcomb, dts_dfcomb_tidy,
  cn_df, cn_dfcomb,
  g_dict, g_df, g_dfcomb, l_dict, l_df, l_dfcomb,
  cn_dictcomb_avg, g_dictcomb_avg, l_dictcomb_avg,
  cn_dfcomb_normtot, cn_dfcomb_normless,
  g_dfcomb_normtot, g_dfcomb_normless,
  l_dfcomb_normtot, l_dfcomb_normless,
  dts_df_normfirst, dts_df_descriptives, dts_df_normfirst_descriptives,
  dts_dict_rmout, dts_df_rmout, normfirst_dts_dict_rmout, normfirst_dts_df_rmout,
  cn_greater_dfs, cn_greater_dfs_normfirst,
  dts_df_tidy_time1, dts_df_tidy_time2,
  \* extract.GbmCellData
  filenames_dict, dts, dts_bygroup, dts_tidy, dts_bygroup_tidy,
  cn, cn_bygroup, cn_tidy, cn_bygroup_tidy,
  inv_thresh, inv, inv_bygroup, inv_tidy, inv_bygroup_tidy,
  \* GbmInvasion2 (its other attributes carry the names of GbmInvasion's)
  dts_dict_withneg, dts_df_withneg, batch_dfs, batch_dfscomb,
  batch_dfs_normfirst, batch_cns, invasion_thresholds, batch_gs_number,
  \* integrate.GbmCellData
  data_locations, n, orgs_per_group_by_exp, data_by_exp, data_dts,
  \* GbmInvasion.krus(list_of_dfs, all_results) and stats.anova(df)
  list_of_dfs, all_results, results, anova_df, values_list_without_nan, tky,
  \* the volume exports: GbmInvasion2.extract_data(vol_path), extract.OrganoidData
  glob_vol, fullvol, vol_dict, vol_files_dict, vol,
  \* data.Data
  data_path, group_str, org_str, residual, group_num, org_num,
  \* extract.comb_df_by_group(df, group_names) and its result df_comb
  comb_df, comb_group_names, df_comb

\* the arguments of GbmInvasion(path, groups_order, time_points, arbitrary_thresholds)
giArgs == << glob_dts, groups_order, time_points, arbitrary_thresholds >>

giTables == << dts_dict, dts_df, dts_df_tidy >>

giOrder == << df_cols, dfcomb_cols, ordered_groups, ordered_all >>

giComb == << dts_dfcomb, dts_dfcomb_tidy >>

giCounts == << cn_df, cn_dfcomb, g_dict, g_df, g_dfcomb, l_dict, l_df, l_dfcomb >>

giAvgs == << cn_dictcomb_avg, g_dictcomb_avg, l_dictcomb_avg >>

giNorms ==
  << cn_dfcomb_normtot, cn_dfcomb_normless, g_dfcomb_normtot, g_dfcomb_normless,
     l_dfcomb_normtot, l_dfcomb_normless >>

giStats ==
  << dts_df_normfirst, dts_df_descriptives, dts_df_normfirst_descriptives,
     dts_dict_rmout, dts_df_rmout, normfirst_dts_dict_rmout, normfirst_dts_df_rmout >>

giGreater == << cn_greater_dfs, cn_greater_dfs_normfirst >>

\* the tidy rows by time point: << >> for None, << rows >> for a table
giTimes == << dts_df_tidy_time1, dts_df_tidy_time2 >>

giVars ==
  << giArgs, groups, giTables, giOrder, giComb, giCounts, giAvgs, giNorms, giStats, giGreater,
     giTimes >>

exTables == << dts, dts_bygroup, dts_tidy, dts_bygroup_tidy >>

exCounts == << cn, cn_bygroup, cn_tidy, cn_bygroup_tidy >>

exInv == << inv_thresh, inv, inv_bygroup, inv_tidy, inv_bygroup_tidy >>

exVars == << filenames_dict, exTables, exCounts, exInv >>

i2Batches == << batch_dfs, batch_dfscomb >>

i2Counts == << batch_cns, invasion_thresholds, batch_gs_number >>

i2Vars == << dts_dict_withneg, dts_df_withneg, i2Batches, batch_dfs_normfirst, i2Counts >>

mgVars == << data_locations, n, orgs_per_group_by_exp, data_by_exp, data_dts >>

stVars == << list_of_dfs, all_results, results, anova_df, values_list_without_nan, tky >>

odVars == << glob_vol, fullvol, vol_dict, vol_files_dict, vol >>

fdVars == << data_path, group_str, org_str, residual, group_num, org_num >>

cbVars == << comb_df, comb_group_names, df_comb >>

\* the arguments and results of the calls made outside the constructors
callVars == << stVars, odVars, fdVars, cbVars >>

\* the attributes no statement of GbmInvasion.__init__ touches
notGi == << exVars, i2Vars, mgVars, callVars >>

time1 == Str(time_points[1])

time2 == Str(time_points[2])

(***************************************************************************)
(* GbmInvasion: the helpers                                                *)
(***************************************************************************)
\* get_group(s): the characters of s before its second underscore, or before
\* its only one
get_group(s) ==
  LET pos == IndexFrom(s, separator, 1)
  IN  IF pos = 0 THEN s
      ELSE LET nxt == IndexFrom(s, separator, pos + 1)
           IN  IF nxt = 0 THEN SubSeq(s, 1, pos - 1) ELSE SubSeq(s, 1, nxt - 1)

\* mk_df(dct, columns)
mk_df(dct, columns) == Reindex(FromDict(dct), columns)

\* pd.melt(df) without dropna()
mk_tidy_keepna(df) == MeltAll(df)

\* mk_tidy(df, tidycolname2)
mk_tidy(df) == Melt(df)

\* a filter that drops the zeros with the negative distances
RemoveNegatives_dropzero(dct) ==
  [ i \in 1..Len(dct) |-> << dct[i][1], SelectSeq(dct[i][2], LAMBDA v : v > 0) >> ]

\* [i for i in value if i >= 0] for every key
RemoveNegatives(dct) ==
  [ i \in 1..Len(dct) |-> << dct[i][1], SelectSeq(dct[i][2], LAMBDA v : v >= 0) >> ]

\* string.startswith(self.groups), self.groups a tuple of prefixes
StartsWithAny(s, prefixes) == \E i \in 1..Len(prefixes) : StartsWith(s, prefixes[i])

\* the inner loop of extract_data: the last matching token of each kind is
\* kept; org, day and group are locals of extract_data that outlive one file
RECURSIVE ScanTokens(_, _, _)
ScanTokens(tokens, st, grps) ==
  IF tokens = << >> THEN st
  ELSE LET string == Head(tokens)
           s1 == IF StartsWith(string, OrgPrefix) THEN [st EXCEPT !.org = string] ELSE st
           s2 == IF EndsWith(string, days) THEN [s1 EXCEPT !.day = string] ELSE s1
           s3 == IF StartsWithAny(string, grps) THEN [s2 EXCEPT !.group = string] ELSE s2
       IN  ScanTokens(Tail(tokens), s3, grps)

\* extract_data(self.dts_path) with time_points given. A local that was never
\* bound is << >>; reading it ends the call with a NameError (err)
RECURSIVE ExtractLoop(_, _, _)
ExtractLoop(files, st, grps) ==
  IF files = << >> \/ st.err THEN st
  ELSE LET f == Head(files)
           s == ScanTokens(Split(f.name, separator), st, grps)
       IN  IF s.org = << >> \/ s.day = << >> \/ s.group = << >>
           THEN [s EXCEPT !.err = TRUE]
           ELSE ExtractLoop(Tail(files),
                  [s EXCEPT !.dct = DictUpdate(s.dct, Join(<< s.group, s.day, s.org >>), f.data)],
                  grps)

extract_data(files, grps) ==
  ExtractLoop(SelectSeq(files, LAMBDA f : ~Contains(f.name, << "v", "o", "l" >>)),
              [ dct |-> << >>, org |-> << >>, day |-> << >>, group |-> << >>, err |-> FALSE ],
              grps)

\* df[col] for a list of labels: the columns named, a KeyError if one is absent
HasCols(df, cols) == \A i \in 1..Len(cols) : HasCol(df, cols[i])

\* mk_dfcomb(df): one column per declared group, the organoid columns whose
\* name starts with the group name end to end, missing cells dropped
mk_dfcomb(df, dfcols, combcols, order) ==
  LET gcomb == [ k \in 1..Len(combcols) |->
                   LET col == SelectSeq(dfcols, LAMBDA c : StartsWith(c, combcols[k]))
                   IN  << combcols[k],
                          DropNaN(Flatten([ j \in 1..Len(col) |-> Col(df, col[j]) ])) >> ]
  IN  mk_df(gcomb, << order >>)

mk_dfcomb_raises(df, dfcols, combcols) ==
  \E k \in 1..Len(combcols) :
    ~HasCols(df, SelectSeq(dfcols, LAMBDA c : StartsWith(c, combcols[k])))

\* a count of the values at or above the threshold
mk_dict_greaterthan_orequal(dct, thresholds) ==
  [ i \in 1..Len(dct) |->
      << dct[i][1], << Len(SelectSeq(dct[i][2], LAMBDA v : v >= thresholds[1])) >> >> ]

\* mk_dict_greaterthan(dct)
mk_dict_greaterthan(dct, thresholds) ==
  [ i \in 1..Len(dct) |->
      << dct[i][1], << Len(SelectSeq(dct[i][2], LAMBDA v : v > thresholds[1])) >> >> ]

\* mk_dict_lessthan(dct)
mk_dict_lessthan(dct, thresholds) ==
  [ i \in 1..Len(dct) |->
      << dct[i][1], << Len(SelectSeq(dct[i][2], LAMBDA v : v < thresholds[2])) >> >> ]

\* sum(val) / len(val) over a column with its padding: nan once a cell is missing
ColumnAvg(val) ==
  IF \E i \in 1..Len(val) : IsNaN(val[i]) THEN NaNQ ELSE Quot(SumSeq(val), Len(val))

\* get_avgs_2days(dfcomb)
get_avgs_2days(dfcomb, t2) ==
  LET avg_dct == [ i \in 1..Len(dfcomb) |-> << dfcomb[i].name, ColumnAvg(dfcomb[i].vals) >> ]
  IN  SelectSeq(avg_dct, LAMBDA e : ~Contains(e[1], << separator >> \o t2 \o days))

\* the dict norm_to_avg2days fills: for key in dictcomb_avg, for col in dfcomb
RECURSIVE NormLoop(_, _, _, _, _)
NormLoop(avg, dfcomb, k, c, acc) ==
  IF k > Len(avg) THEN acc
  ELSE IF c > Len(dfcomb) THEN NormLoop(avg, dfcomb, k + 1, 1, acc)
  ELSE NormLoop(avg, dfcomb, k, c + 1,
         IF StartsWith(avg[k][1], get_group(dfcomb[c].name))
         THEN DictUpdate(acc, dfcomb[c].name,
                [ i \in 1..Len(dfcomb[c].vals) |-> DivQ(dfcomb[c].vals[i], avg[k][2]) ])
         ELSE acc)

\* mk_df of a dict of float lists: the padding is nan
mk_df_float(dct, cols) ==
  LET df == FromDict(dct)
  IN  [ i \in 1..Len(cols) |->
          [ name |-> cols[i],
            vals |-> IF HasCol(df, cols[i]) THEN Col(df, cols[i])
                     ELSE [ r \in 1..NRows(df) |-> NaNQ ] ] ]

\* norm_to_avg2days(dictcomb_avg, dfcomb)
norm_to_avg2days(dictcomb_avg, dfcomb, order) ==
  mk_df_float(NormLoop(dictcomb_avg, dfcomb, 1, 1, << >>), order)

\* col_values - col_values.min(): min() skips the missing cells
norm_first_col(vals) ==
  LET present == DropNaN(vals)
  IN  IF present = << >> THEN vals
      ELSE [ i \in 1..Len(vals) |->
               IF IsNaN(vals[i]) THEN NaN ELSE vals[i] - Min(Range(present)) ]

\* df.apply(lambda col_values: col_values - col_values.min())
norm_first(df) ==
  [ i \in 1..Len(df) |-> [ name |-> df[i].name, vals |-> norm_first_col(df[i].vals) ] ]

\* my_describe(s) of a column: count, min, the quartiles and max of the cells
\* present; mean is sum / count, and std the square root of
\* (count * sumsq - sum^2) / (count * (count - 1)), kept by sum and sumsq
my_describe(vals) ==
  LET present == DropNaN(vals)
  IN  [ count |-> Len(present),
        sum   |-> SumSeq(present),
        sumsq |-> SumSeq([ i \in 1..Len(present) |-> present[i] * present[i] ]),
        min   |-> IF present = << >> THEN NaN ELSE Min(Range(present)),
        q25   |-> Quantile(vals, << 1, 4 >>),
        q50   |-> Quantile(vals, << 1, 2 >>),
        q75   |-> Quantile(vals, << 3, 4 >>),
        max   |-> IF present = << >> THEN NaN ELSE Max(Range(present)) ]

\* df.apply(lambda x: self.my_describe(x)) as a dict column -> description
describe_df(df) == [ i \in 1..Len(df) |-> << df[i].name, my_describe(df[i].vals) >> ]

\* value < description['std3'], std3 = mean + 3 * std: false when value is
\* missing or std3 is nan (less than two cells). With S = sum, Q = sumsq and
\* k = count, value < S/k + 3*sqrt((k*Q - S*S) / (k*(k-1))) holds iff
\* k*value - S < 0 or (k-1) * (k*value - S)^2 < 9 * k * (k*Q - S*S)
BelowStd3(value, d) ==
  /\ ~IsNaN(value)
  /\ d.count >= 2
  /\ LET dev == d.count * value - d.sum
     IN  \/ dev < 0
         \/ (d.count - 1) * dev * dev < 9 * d.count * (d.count * d.sumsq - d.sum * d.sum)

\* dct.items() of a DataFrame: its columns, padding included
Items(df) == [ i \in 1..Len(df) |-> << df[i].name, df[i].vals >> ]

\* rm_outliers with the bound of every key recomputed from the list handed in
rm_outliers_ownbound(dct, descriptives) ==
  [ i \in 1..Len(dct) |->
      << dct[i][1],
         SelectSeq(dct[i][2], LAMBDA value : BelowStd3(value, my_describe(dct[i][2]))) >> ]

\* rm_outliers(dct): the bound of every key is read from dts_df_descriptives
rm_outliers(dct, descriptives) ==
  [ i \in 1..Len(dct) |->
      << dct[i][1],
         SelectSeq(dct[i][2], LAMBDA value : BelowStd3(value, DictGet(descriptives, dct[i][1]))) >> ]

\* self.stats_list
stats_list ==
  << "min", "25%", "50%", "75%", "max", "range", "iqr", "q1q4", "q2q4", "q3q4", "std3" >>

\* get_stat(df, stat): for every group, column_name[:-5], the entries
\* cur_column[stat] of its columns in column order; an entry is kept as the
\* description it is read from and the name of the statistic
RECURSIVE GetStatLoop(_, _, _)
GetStatLoop(descriptives, stat, result) ==
  IF descriptives = << >> THEN result
  ELSE LET group == DropLast(descriptives[1][1], 5)
           sofar == IF DictHas(result, group) THEN DictGet(result, group) ELSE << >>
           entry == [ desc |-> descriptives[1][2], stat |-> stat ]
       IN  GetStatLoop(Tail(descriptives), stat,
                       DictUpdate(result, group, Append(sofar, entry)))

get_stat(descriptives, stat) == GetStatLoop(descriptives, stat, << >>)

\* a - b of two fractions
SubQ(a, b) == << a[1] * b[2] - b[1] * a[2], a[2] * b[2], "q" >>

IntQ(i) == << i, 1, "q" >>

\* the entries of my_describe that are fractions of the cells; all are nan
\* for a column without a cell
StatValue(d, stat) ==
  IF d.count = 0 THEN NaNQ
  ELSE CASE stat = "min"   -> IntQ(d.min)
         [] stat = "25%"   -> d.q25
         [] stat = "50%"   -> d.q50
         [] stat = "75%"   -> d.q75
         [] stat = "max"   -> IntQ(d.max)
         [] stat = "range" -> IntQ(d.max - d.min)
         [] stat = "iqr"   -> SubQ(d.q75, d.q25)
         [] stat = "q1q4"  -> SubQ(IntQ(d.max), d.q25)
         [] stat = "q2q4"  -> SubQ(IntQ(d.max), d.q50)
         [] stat = "q3q4"  -> SubQ(IntQ(d.max), d.q75)

\* float(x) > stat_value for the entry d[stat]; false when either is nan.
\* std3 = mean + 3 * std is nan with less than two cells, and with S = sum,
\* Q = sumsq, k = count, x > std3 iff k*x - S > 0 and
\* (k-1) * (k*x - S)^2 > 9 * k * (k*Q - S*S)
AboveStat(x, d, stat) ==
  /\ ~IsNaN(x)
  /\ IF stat = "std3"
     THEN /\ d.count >= 2
          /\ LET dev == d.count * x - d.sum
             IN  /\ dev > 0
                 /\ (d.count - 1) * dev * dev > 9 * d.count * (d.count * d.sumsq - d.sum * d.sum)
     ELSE LET v == StatValue(d, stat)
          IN  ~IsNaNQ(v) /\ x * v[2] > v[1]

\* the rows of pd.DataFrame.from_dict(dct, orient="index").transpose()
StatRows(dct) == IF dct = << >> THEN 0 ELSE Max({ Len(dct[i][2]) : i \in 1..Len(dct) })

\* self.stats_dfs[stat_df_idx][group][n] raises KeyError: the table
\* mk_df(dct, groups_order) has the columns of groups_order and the row
\* labels 0 .. StatRows - 1
stat_lookup_raises(dct, order, group, row) ==
  ~InList(group, order) \/ row \notin 0..(StatRows(dct) - 1)

\* the cell is padding when the group has less than row + 1 entries
stat_lookup_isnan(dct, group, row) ==
  ~DictHas(dct, group) \/ row >= Len(DictGet(dct, group))

\* the loop of cn_greater_than over dts_dataframe.items()
RECURSIVE CnGreaterLoop(_, _, _, _, _)
CnGreaterLoop(df, c, stats, order, st) ==
  IF c > Len(df) \/ st.err THEN st
  ELSE LET col == df[c].name
           last == col[Len(col)]
           row == DigitVal(last) - 1
           group == DropLast(col, 5)
           sofar == IF DictHas(st.dct, group) THEN DictGet(st.dct, group) ELSE << >>
       IN  IF col = << >> \/ ~IsDigit(last) \/ stat_lookup_raises(stats, order, group, row)
           THEN [ st EXCEPT !.err = TRUE ]
           ELSE LET values_greater ==
                      IF stat_lookup_isnan(stats, group, row) THEN << >>
                      ELSE LET entry == DictGet(stats, group)[row + 1]
                           IN  SelectSeq(df[c].vals,
                                         LAMBDA x : AboveStat(x, entry.desc, entry.stat))
                IN  CnGreaterLoop(df, c + 1, stats, order,
                      [ st EXCEPT !.dct = DictUpdate(st.dct, group,
                                                     Append(sofar, Len(values_greater))) ])

\* cn_greater_than(dts_dataframe, stat); self.stats_dfs are the tables of
\* get_stat(self.dts_df_descriptives, stat) with the columns of groups_order
cn_greater_than(dts_dataframe, stat, descriptives, order, comb_cols) ==
  LET r == CnGreaterLoop(dts_dataframe, 1, get_stat(descriptives, stat), order,
                         [ dct |-> << >>, err |-> FALSE ])
  IN  [ err |-> r.err, df |-> mk_df(r.dct, << comb_cols >>) ]

(***************************************************************************)
(* GbmInvasion.__init__                                                    *)
(***************************************************************************)
Empty == << >>

\* the attributes a constructor has not assigned yet, and those of the
\* classes that are not being constructed
NoAttributes ==
  /\ groups = Empty
  /\ dts_dict = Empty /\ dts_df = Empty /\ dts_df_tidy = Empty
  /\ df_cols = Empty /\ dfcomb_cols = Empty /\ ordered_groups = Empty
  /\ ordered_all = Empty                 \* self.ordered_all = None
  /\ dts_dfcomb = Empty /\ dts_dfcomb_tidy = Empty
  /\ cn_df = Empty /\ cn_dfcomb = Empty
  /\ g_dict = Empty /\ g_df = Empty /\ g_dfcomb = Empty
  /\ l_dict = Empty /\ l_df = Empty /\ l_dfcomb = Empty
  /\ cn_dictcomb_avg = Empty /\ g_dictcomb_avg = Empty /\ l_dictcomb_avg = Empty
  /\ cn_dfcomb_normtot = Empty /\ cn_dfcomb_normless = Empty
  /\ g_dfcomb_normtot = Empty /\ g_dfcomb_normless = Empty
  /\ l_dfcomb_normtot = Empty /\ l_dfcomb_normless = Empty

NoStats ==
  /\ dts_df_normfirst = Empty /\ dts_df_descriptives = Empty
  /\ dts_df_normfirst_descriptives = Empty
  /\ dts_dict_rmout = Empty /\ dts_df_rmout = Empty
  /\ normfirst_dts_dict_rmout = Empty /\ normfirst_dts_df_rmout = Empty
  /\ cn_greater_dfs = Empty /\ cn_greater_dfs_normfirst = Empty
  /\ dts_df_tidy_time1 = Empty /\ dts_df_tidy_time2 = Empty      \* None

NoEx ==
  /\ filenames_dict = Empty
  /\ dts = Empty /\ dts_bygroup = Empty /\ dts_tidy = Empty /\ dts_bygroup_tidy = Empty
  /\ cn = Empty /\ cn_bygroup = Empty /\ cn_tidy = Empty /\ cn_bygroup_tidy = Empty
  /\ inv_thresh = Empty /\ inv = Empty /\ inv_bygroup = Empty
  /\ inv_tidy = Empty /\ inv_bygroup_tidy = Empty

NoI2 ==
  /\ dts_dict_withneg = Empty /\ dts_df_withneg = Empty
  /\ batch_dfs = Empty /\ batch_dfscomb = Empty /\ batch_dfs_normfirst = Empty
  /\ batch_cns = Empty /\ invasion_thresholds = Empty /\ batch_gs_number = Empty

NoMg ==
  /\ data_locations = Empty /\ n = 0 /\ orgs_per_group_by_exp = Empty
  /\ data_by_exp = Empty /\ data_dts = Empty

\* no call has been made outside the constructors
NoCalls ==
  /\ list_of_dfs = Empty /\ all_results = FALSE /\ results = Empty
  /\ anova_df = Empty /\ values_list_without_nan = Empty /\ tky = {}
  /\ glob_vol = Empty /\ fullvol = 0 /\ vol_dict = Empty
  /\ vol_files_dict = Empty /\ vol = Empty
  /\ data_path = Empty /\ group_str = Empty /\ org_str = Empty /\ residual = Empty
  /\ group_num = 0 /\ org_num = 0
  /\ comb_df = Empty /\ comb_group_names = Empty /\ df_comb = Empty

GiInit ==
  /\ pc = "init"
  /\ glob_dts \in { a \in Arrangements(DtsFiles, MaxFiles) : Len(a) >= 1 }
  /\ groups_order \in GroupOrders
  /\ time_points \in TimePointChoices
  /\ arbitrary_thresholds \in ThresholdChoices
  /\ NoAttributes
  /\ NoStats
  /\ NoCalls
  /\ NoEx
  /\ NoI2
  /\ NoMg

\* self.groups: the first token of every entry of groups_order, once each
SetGroups ==
  /\ pc = "init"
  /\ groups' = Dedup([ i \in 1..Len(groups_order) |-> Split(groups_order[i], separator)[1] ])
  /\ pc' = "extract"
  /\ UNCHANGED << notGi, giGreater, giTimes, giStats, giArgs, giTables, giOrder, giComb, giCounts, giAvgs, giNorms >>

\* self.dts_dict = self.extract_data(self.dts_path)
ExtractData ==
  /\ pc = "extract"
  /\ LET r == extract_data(glob_dts, groups)
     IN  /\ dts_dict' = r.dct
         /\ pc' = IF r.err THEN "error" ELSE "build"
  /\ UNCHANGED << notGi, giGreater, giTimes, giStats, giArgs, groups, dts_df, dts_df_tidy, giOrder, giComb, giCounts, giAvgs, giNorms >>

\* t[~t[self.tidycolname1].str.contains(tag)]
rows_without(t, tag) == SelectSeq(t, LAMBDA row : ~Contains(row[1], tag))

\* the two statements under "if self.time_points is not None". Both assign
\* self.dts_df_tidy_time1: the rows without the tag of time2 first, the rows
\* without the tag of time1 over them. None assigns self.dts_df_tidy_time2.
tidy_by_time(t, before) ==
  IF time_points = << >> THEN before
  ELSE LET first == [ before EXCEPT !.time1 = << rows_without(t, << separator >> \o time2 \o days) >> ]
       IN  [ first EXCEPT !.time1 = << rows_without(t, << separator >> \o time1 \o days) >> ]

\* the negative distances leave dts_dict; dts_df and dts_df_tidy are built
\* with self.ordered_all as it is at this statement
BuildDts ==
  /\ pc = "build"
  /\ LET filtered == RemoveNegatives(dts_dict)
         df == mk_df(filtered, ordered_all)
         by_time == tidy_by_time(mk_tidy(df), [ time1 |-> dts_df_tidy_time1,
                                                time2 |-> dts_df_tidy_time2 ])
     IN  /\ dts_dict' = filtered
         /\ dts_df' = df
         /\ dts_df_tidy' = mk_tidy(df)
         /\ dts_df_tidy_time1' = by_time.time1
         /\ dts_df_tidy_time2' = by_time.time2
  /\ pc' = "groups"
  /\ UNCHANGED << notGi, giGreater, giStats, giArgs, groups, giOrder, giComb, giCounts, giAvgs, giNorms >>

\* df_cols, dfcomb_cols, ordered_groups and ordered_all from the columns of dts_df
GetGroups ==
  /\ pc = "groups"
  /\ LET columns == Columns(dts_df)
         long == [ i \in 1..Len(columns) |-> get_group(columns[i]) ]
     IN  /\ df_cols' = columns
         /\ dfcomb_cols' = SortedStrs(Range(long))
         /\ ordered_groups' =
              Flatten([ s \in 1..Len(groups_order) |->
                          SelectSeq(long, LAMBDA l : l = groups_order[s]) ])
         /\ ordered_all' =
              << Flatten([ s \in 1..Len(groups_order) |->
                             SelectSeq(columns, LAMBDA l : StartsWith(l, groups_order[s])) ]) >>
  /\ pc' = "comb"
  /\ UNCHANGED << notGi, giGreater, giTimes, giStats, giArgs, groups, giTables, giComb, giCounts, giAvgs, giNorms >>

\* self.dts_dfcomb = self.mk_dfcomb(self.dts_df) and its tidy form
CombineDts ==
  /\ pc = "comb"
  /\ LET comb == mk_dfcomb(dts_df, df_cols, dfcomb_cols, groups_order)
     IN  /\ dts_dfcomb' = comb
         /\ dts_dfcomb_tidy' = mk_tidy(comb)
  /\ pc' = "normfirst"
  /\ UNCHANGED << notGi, giGreater, giTimes, giStats, giArgs, groups, giTables, giOrder, giCounts, giAvgs, giNorms >>

\* self.dts_df_normfirst: every column minus its smallest value
NormFirst ==
  /\ pc = "normfirst"
  /\ dts_df_normfirst' = norm_first(dts_df)
  /\ pc' = "describe"
  /\ UNCHANGED << notGi, giGreater, giTimes, giArgs, groups, giTables, giOrder, giComb, giCounts, giAvgs, giNorms,
                  dts_df_descriptives, dts_df_normfirst_descriptives,
                  dts_dict_rmout, dts_df_rmout, normfirst_dts_dict_rmout,
                  normfirst_dts_df_rmout >>

\* the descriptive statistics of the raw and of the shifted distances
Describe ==
  /\ pc = "describe"
  /\ dts_df_descriptives' = describe_df(dts_df)
  /\ dts_df_normfirst_descriptives' = describe_df(dts_df_normfirst)
  /\ pc' = "rmout"
  /\ UNCHANGED << notGi, giGreater, giTimes, giArgs, groups, giTables, giOrder, giComb, giCounts, giAvgs, giNorms,
                  dts_df_normfirst, dts_dict_rmout, dts_df_rmout,
                  normfirst_dts_dict_rmout, normfirst_dts_df_rmout >>

\* rm_outliers on dts_dict and on dts_df_normfirst, whose items() are its columns
RmOutliers ==
  /\ pc = "rmout"
  /\ LET raw == rm_outliers(dts_dict, dts_df_descriptives)
         shifted == rm_outliers(Items(dts_df_normfirst), dts_df_descriptives)
     IN  /\ dts_dict_rmout' = raw
         /\ dts_df_rmout' = mk_df(raw, ordered_all)
         /\ normfirst_dts_dict_rmout' = shifted
         /\ normfirst_dts_df_rmout' = mk_df(shifted, ordered_all)
  /\ pc' = "cn_greater"
  /\ UNCHANGED << notGi, giGreater, giTimes, giArgs, groups, giTables, giOrder, giComb, giCounts, giAvgs, giNorms,
                  dts_df_normfirst, dts_df_descriptives, dts_df_normfirst_descriptives >>

\* self.cn_greater_dfs and self.cn_greater_dfs_normfirst: cn_greater_than for
\* every statistic of stats_list, on dts_df and on dts_df_normfirst
CnGreaterThan ==
  /\ pc = "cn_greater"
  /\ LET raw == [ k \in 1..Len(stats_list) |->
                  cn_greater_than(dts_df, stats_list[k], dts_df_descriptives,
                                  groups_order, dfcomb_cols) ]
         shifted == [ k \in 1..Len(stats_list) |->
                        cn_greater_than(dts_df_normfirst, stats_list[k], dts_df_descriptives,
                                        groups_order, dfcomb_cols) ]
     IN  IF \E k \in 1..Len(stats_list) : raw[k].err \/ shifted[k].err
         THEN /\ pc' = "error"
              /\ UNCHANGED giGreater
         ELSE /\ cn_greater_dfs' = [ k \in 1..Len(stats_list) |-> raw[k].df ]
              /\ cn_greater_dfs_normfirst' = [ k \in 1..Len(stats_list) |-> shifted[k].df ]
              /\ pc' = "cn"
  /\ UNCHANGED << notGi, giTimes, giArgs, groups, giTables, giOrder, giComb, giCounts,
                  giAvgs, giNorms, giStats >>

\* self.cn_df = pd.DataFrame(self.dts_df.count()).transpose(); cn_dfcomb
CellNumber ==
  /\ pc = "cn"
  /\ LET cnt == Count(dts_df)
         df == [ i \in 1..Len(cnt) |-> [ name |-> cnt[i][1], vals |-> << cnt[i][2] >> ] ]
     IN  /\ cn_df' = df
         /\ cn_dfcomb' = mk_dfcomb(df, df_cols, dfcomb_cols, groups_order)
  /\ pc' = "thresholds"
  /\ UNCHANGED << notGi, giGreater, giTimes, giStats, giArgs, groups, giTables, giOrder, giComb,
                  g_dict, g_df, g_dfcomb, l_dict, l_df, l_dfcomb, giAvgs, giNorms >>

\* the counts above arbitrary_thresholds[0] and below arbitrary_thresholds[1]
Thresholds ==
  /\ pc = "thresholds"
  /\ LET gd == mk_dict_greaterthan(dts_dict, arbitrary_thresholds)
         ld == mk_dict_lessthan(dts_dict, arbitrary_thresholds)
         gdf == mk_df(gd, ordered_all)
         ldf == mk_df(ld, ordered_all)
     IN  /\ g_dict' = gd
         /\ l_dict' = ld
         /\ g_df' = gdf
         /\ l_df' = ldf
         /\ IF mk_dfcomb_raises(gdf, df_cols, dfcomb_cols)
            THEN /\ pc' = "error"
                 /\ UNCHANGED << g_dfcomb, l_dfcomb >>
            ELSE /\ pc' = "averages"
                 /\ g_dfcomb' = mk_dfcomb(gdf, df_cols, dfcomb_cols, groups_order)
                 /\ l_dfcomb' = mk_dfcomb(ldf, df_cols, dfcomb_cols, groups_order)
  /\ UNCHANGED << notGi, giGreater, giTimes, giStats, giArgs, groups, giTables, giOrder, giComb, cn_df, cn_dfcomb, giAvgs, giNorms >>

\* the averages at the first time point, by group
Averages ==
  /\ pc = "averages"
  /\ cn_dictcomb_avg' = get_avgs_2days(cn_dfcomb, time2)
  /\ g_dictcomb_avg' = get_avgs_2days(g_dfcomb, time2)
  /\ l_dictcomb_avg' = get_avgs_2days(l_dfcomb, time2)
  /\ pc' = "normalize"
  /\ UNCHANGED << notGi, giGreater, giTimes, giStats, giArgs, groups, giTables, giOrder, giComb, giCounts, giNorms >>

\* the normtot and normless tables of the three count tables
Normalize ==
  /\ pc = "normalize"
  /\ cn_dfcomb_normtot' = norm_to_avg2days(cn_dictcomb_avg, cn_dfcomb, groups_order)
  /\ cn_dfcomb_normless' = norm_to_avg2days(l_dictcomb_avg, cn_dfcomb, groups_order)
  /\ g_dfcomb_normtot' = norm_to_avg2days(g_dictcomb_avg, g_dfcomb, groups_order)
  /\ g_dfcomb_normless' = norm_to_avg2days(l_dictcomb_avg, g_dfcomb, groups_order)
  /\ l_dfcomb_normtot' = norm_to_avg2days(cn_dictcomb_avg, l_dfcomb, groups_order)
  /\ l_dfcomb_normless' = norm_to_avg2days(l_dictcomb_avg, l_dfcomb, groups_order)
  /\ pc' = "done"
  /\ UNCHANGED << notGi, giGreater, giTimes, giStats, giArgs, groups, giTables, giOrder, giComb, giCounts, giAvgs >>

vars == << pc, giVars, notGi >>

Init == GiInit

Next ==
  \/ SetGroups
  \/ ExtractData
  \/ BuildDts
  \/ GetGroups
  \/ CombineDts
  \/ NormFirst
  \/ Describe
  \/ RmOutliers
  \/ CnGreaterThan
  \/ CellNumber
  \/ Thresholds
  \/ Averages
  \/ Normalize

Spec == Init /\ [][Next]_vars

(***************************************************************************)
(* GbmInvasion.__init__ on one organoid with many cells: a run of equal    *)
(* distances and one last distance                                         *)
(***************************************************************************)
LongData == { [ i \in 1..(k + 1) |-> IF i <= k THEN c ELSE v ] :
              k \in 1..MaxRun, c \in 0..2, v \in 0..4 }

OutlierInit ==
  /\ pc = "init"
  /\ \E d \in LongData :
       glob_dts = << [ name |-> Join(<< DateToken, << "A" >>, DayToken(2), OrgToken(1), DtsSuffix >>),
                       data |-> d ] >>
  /\ groups_order \in GroupOrders
  /\ time_points \in TimePointChoices
  /\ arbitrary_thresholds = << 2, 2 >>
  /\ NoAttributes
  /\ NoStats
  /\ NoCalls
  /\ NoEx
  /\ NoI2
  /\ NoMg

OutlierSpec == OutlierInit /\ [][Next]_vars

(***************************************************************************)
(* gbm_org_analysis/extract.py: GbmCellData                                *)
(***************************************************************************)
\* the distances a file may hold
DataValues == { 0 - 1, 0, 2 }

\* the contents of a file: at most MaxLen distances
DataLists == UNION { [ 1..k -> DataValues ] : k \in 0..MaxLen }

GroupPrefix == << "g", "r", "o", "u", "p" >>

\* groups, the key that reveals the blinded groups, in display order
groups_dict ==
  << << << "g", "r", "o", "u", "p", "0" >>, << "D", "M", "S", "O" >> >>,
     << << "g", "r", "o", "u", "p", "1" >>, << "T", "A", "S" >> >>,
     << << "g", "r", "o", "u", "p", "2" >>, << "J", "Q", "1", "+", "D", "M", "S", "O" >> >> >>

\* self.ordered_group_names = list(groups.values())
ordered_group_names == [ i \in 1..Len(groups_dict) |-> groups_dict[i][2] ]

\* invasion_threshold_details = [0.75, 'DMSO']
invasion_thresh_quantile == << 3, 4 >>

invasion_thresh_group == << "D", "M", "S", "O" >>

ExSuffix == << "S", "u", "r", "f", "a", "c", "e", "s", ".", "c", "s", "v" >>

\* the name of the export of organoid o of blinded group k
ExName(k, o) == Join(<< DateToken, GroupPrefix \o Str(k), OrgToken(o), ExSuffix >>)

\* the inner loop of match_files_with_org_id; org and group are locals of the
\* function and keep the value of an earlier file
RECURSIVE MatchTokens(_, _, _)
MatchTokens(tokens, st, gd) ==
  IF tokens = << >> THEN st
  ELSE LET string == Head(tokens)
           s1 == IF StartsWith(string, OrgPrefix) THEN [st EXCEPT !.org = string] ELSE st
           s2 == IF StartsWith(string, GroupPrefix) /\ DictHas(gd, string)
                 THEN [s1 EXCEPT !.group = DictGet(gd, string)] ELSE s1
       IN  MatchTokens(Tail(tokens), s2, gd)

RECURSIVE MatchLoop(_, _, _)
MatchLoop(files, st, gd) ==
  IF files = << >> \/ st.err THEN st
  ELSE LET f == Head(files)
           s == MatchTokens(Split(f.name, separator), st, gd)
       IN  IF s.org = << >> \/ s.group = << >>
           THEN [s EXCEPT !.err = TRUE]
           ELSE MatchLoop(Tail(files),
                  [s EXCEPT !.dct = IF DictHas(s.dct, f.name) THEN s.dct
                                    ELSE Append(s.dct, << f.name, Join(<< s.group, s.org >>) >>)],
                  gd)

\* match_files_with_org_id(path, separator, groups_dict): file name -> identifier
match_files_with_org_id(files, gd) ==
  MatchLoop(SelectSeq(files, LAMBDA f :
              \E i \in 1..Len(gd) : InList(gd[i][1], Split(f.name, separator))),
            [ dct |-> << >>, org |-> << >>, group |-> << >>, err |-> FALSE ],
            gd)

\* pd.read_csv(filename, header=2, usecols=[0])
ReadCsv(files, filename) == (CHOOSE f \in Range(files) : f.name = filename).data

\* the row labels i (from 0) of the rows of data that stay after
\* data.drop(neg_indexes)
KeptLabels(data) ==
  LET pos == SelectSeq([ i \in 1..Len(data) |-> i ], LAMBDA i : data[i] >= 0)
  IN  [ k \in 1..Len(pos) |-> pos[k] - 1 ]

\* the cells that stay, after data = data - data.min()
KeptShifted(data) ==
  LET kept == SelectSeq(data, LAMBDA v : v >= 0)
  IN  [ k \in 1..Len(kept) |-> kept[k] - Min(Range(kept)) ]

\* the row labels of pd.concat([df, data], axis=1): the union of the labels of
\* both frames, sorted by the pandas releases that sort the union (sorted_union)
\* and in order of first appearance by those that do not
UnionLabels(idx, labels, sorted_union) ==
  IF idx = << >> THEN labels
  ELSE IF Range(labels) \subseteq Range(idx) THEN idx
  ELSE IF sorted_union THEN SortedInts(idx \o SelectSeq(labels, LAMBDA l : ~InList(l, idx)))
  ELSE idx \o SelectSeq(labels, LAMBDA l : ~InList(l, idx))

\* the cell of a column at row label l
CellAt(labels, vals, l) ==
  IF InList(l, labels) THEN vals[CHOOSE i \in 1..Len(labels) : labels[i] = l] ELSE NaN

\* the loop of extract_dts_data over filenames_dict.items(); frame holds the
\* row labels (idx) and the columns of df
RECURSIVE ExtractDtsLoop(_, _, _, _)
ExtractDtsLoop(fd, files, frame, sorted_union) ==
  IF fd = << >> THEN frame
  ELSE LET data == ReadCsv(files, fd[1][1])
           labels == KeptLabels(data)
           vals == KeptShifted(data)
           idx == UnionLabels(frame.idx, labels, sorted_union)
           old == [ c \in 1..Len(frame.cols) |->
                      [ name |-> frame.cols[c].name,
                        vals |-> [ r \in 1..Len(idx) |->
                                     CellAt(frame.idx, frame.cols[c].vals, idx[r]) ] ] ]
           new == [ name |-> fd[1][2],
                    vals |-> [ r \in 1..Len(idx) |-> CellAt(labels, vals, idx[r]) ] ]
       IN  ExtractDtsLoop(Tail(fd), files, [ idx |-> idx, cols |-> Append(old, new) ],
                          sorted_union)

\* extract_dts_data(filenames_dict)
extract_dts_data(fd, files, sorted_union) ==
  LET df == ExtractDtsLoop(fd, files, [ idx |-> << >>, cols |-> << >> ], sorted_union).cols
      cols == Columns(df)
      columns_order ==
        Flatten([ g \in 1..Len(ordered_group_names) |->
                    SortedStrs({ c \in Range(cols) : StartsWith(c, ordered_group_names[g]) }) ])
  IN  Reindex(df, << columns_order >>)

\* df.reindex(columns=columns_order) raises ValueError when two files carry the
\* same identifier: df then has two columns with one label
reindex_raises(fd) == ~Distinct([ i \in 1..Len(fd) |-> fd[i][2] ])

\* comb_df_by_group(df, group_names): the cells of the columns whose name
\* starts with the group, end to end, the missing cells with them
comb_df_by_group(df, group_names) ==
  FromDict([ g \in 1..Len(group_names) |->
               << group_names[g],
                  Flatten([ c \in 1..Len(df) |->
                              IF StartsWith(df[c].name, group_names[g])
                              THEN df[c].vals ELSE << >> ]) >> ])

\* mk_comb_and_tidy_dfs(df, tidycol2name): df_bygroup, df_tidy, df_bygroup_tidy
mk_comb_and_tidy_dfs(df) ==
  LET grps == Dedup([ c \in 1..Len(df) |-> DropLast(df[c].name, 5) ])
      df_bygroup == comb_df_by_group(df, grps)
  IN  << df_bygroup, Melt(df), Melt(df_bygroup) >>

\* value > threshold, threshold a float: false when either is nan
GreaterQ(value, threshold) ==
  ~IsNaN(value) /\ ~IsNaNQ(threshold) /\ value * threshold[2] > threshold[1]

\* statistics.mean(values) of quantiles with the denominator of q: nan once a
\* value is nan
MeanQ(values, q) ==
  IF \E i \in 1..Len(values) : IsNaNQ(values[i]) THEN NaNQ
  ELSE << SumSeq([ i \in 1..Len(values) |-> values[i][1] ]), q[2] * Len(values), "q" >>

\* the quantiles get_invasion_threshold averages: those of the columns whose
\* name holds the name of the reference group
values_to_average(df, q, group) ==
  LET orgs == SelectSeq(df, LAMBDA col : Contains(col.name, group))
  IN  [ i \in 1..Len(orgs) |-> Quantile(orgs[i].vals, q) ]

\* get_invasion_threshold(df); mean([]) raises StatisticsError
get_invasion_threshold(df) ==
  MeanQ(values_to_average(df, invasion_thresh_quantile, invasion_thresh_group),
        invasion_thresh_quantile)

get_invasion_threshold_raises(df) ==
  values_to_average(df, invasion_thresh_quantile, invasion_thresh_group) = << >>

\* count_values_above_threshold(df, threshold)
count_values_above_threshold(df, threshold) ==
  [ c \in 1..Len(df) |->
      [ name |-> df[c].name,
        vals |-> << Len(SelectSeq(df[c].vals, LAMBDA value : GreaterQ(value, threshold))) >> ] ]

\* the exports of extract.GbmCellData's file_location: two organoids of the
\* first group with any contents and one of the second
ExFiles ==
  { << [ name |-> ExName(0, 1), data |-> d1 ], [ name |-> ExName(1, 1), data |-> d3 ],
       [ name |-> ExName(0, 2), data |-> d2 ] >> :
    d1 \in DataLists, d2 \in DataLists, d3 \in { << 2, 0 >> } }

\* the exports of a folder that holds none of the reference group
ExFilesNoReference == { << [ name |-> ExName(1, 1), data |-> d ] >> : d \in { << 2, 0 >> } }

\* the exports of a folder with an organoid of the reference group and one of
\* the group whose name ends with the name of the reference group
ExFilesCombination ==
  { << [ name |-> ExName(0, 1), data |-> d1 ], [ name |-> ExName(2, 1), data |-> d2 ] >> :
    d1 \in DataLists, d2 \in { << 2, 0 >>, << 0 - 1, 2 >> } }

ExInit ==
  /\ pc = "ex_init"
  /\ glob_dts \in ExFiles \cup ExFilesNoReference \cup ExFilesCombination
  /\ groups_order = Empty /\ time_points = Empty /\ arbitrary_thresholds = Empty
  /\ NoAttributes
  /\ NoStats
  /\ NoCalls
  /\ NoEx
  /\ NoI2
  /\ NoMg

\* the attributes no statement of extract.GbmCellData.__init__ touches
notEx == << giVars, i2Vars, mgVars, callVars >>

\* self.filenames_dict and self.dts
ExExtract ==
  /\ pc = "ex_init"
  /\ LET r == match_files_with_org_id(glob_dts, groups_dict)
     IN  /\ filenames_dict' = r.dct
         /\ IF r.err \/ reindex_raises(r.dct)
            THEN /\ pc' = "error"
                 /\ UNCHANGED dts
            ELSE /\ pc' = "ex_comb"
                 /\ \E sorted_union \in BOOLEAN :
                      dts' = extract_dts_data(r.dct, glob_dts, sorted_union)
  /\ UNCHANGED << notEx, dts_bygroup, dts_tidy, dts_bygroup_tidy, exCounts, exInv >>

\* the by-group and tidy tables of dts, then cn and its tables
ExCombine ==
  /\ pc = "ex_comb"
  /\ LET d == mk_comb_and_tidy_dfs(dts)
         cnt == [ c \in 1..Len(dts) |->
                    [ name |-> dts[c].name, vals |-> << Len(DropNaN(dts[c].vals)) >> ] ]
         k == mk_comb_and_tidy_dfs(cnt)
     IN  /\ dts_bygroup' = d[1] /\ dts_tidy' = d[2] /\ dts_bygroup_tidy' = d[3]
         /\ cn' = cnt
         /\ cn_bygroup' = k[1] /\ cn_tidy' = k[2] /\ cn_bygroup_tidy' = k[3]
  /\ pc' = "ex_inv"
  /\ UNCHANGED << notEx, filenames_dict, dts, exInv >>

\* self.inv_thresh, self.inv and its tables
ExInvasion ==
  /\ pc = "ex_inv"
  /\ IF get_invasion_threshold_raises(dts)
     THEN /\ pc' = "error"
          /\ UNCHANGED exInv
     ELSE LET thresh == get_invasion_threshold(dts)
              above == count_values_above_threshold(dts, thresh)
              t == mk_comb_and_tidy_dfs(above)
          IN  /\ inv_thresh' = thresh
              /\ inv' = above
              /\ inv_bygroup' = t[1] /\ inv_tidy' = t[2] /\ inv_bygroup_tidy' = t[3]
              /\ pc' = "ex_done"
  /\ UNCHANGED << notEx, filenames_dict, exTables, exCounts >>

(***************************************************************************)
(* GbmInvasion2.py                                                         *)
(***************************************************************************)
BatchPrefix == << "b", "a", "t", "c", "h" >>

\* self.batch_names, also the batch of a file whose batch token ends with 1..4
batch_names == << << "g", "b", "m", "3", "9", "_", "d", "a", "y", "1", "8" >>, << "g", "b", "m", "2", "2", "_", "d", "a", "y", "1", "8" >>, << "g", "b", "m", "3", "9", "_", "d", "a", "y", "2", "5" >>, << "g", "b", "m", "2", "2", "_", "d", "a", "y", "1", "1" >> >>

\* the group of a file whose group token ends with 0..8
I2GroupNames ==
  << << "d", "a", "y", "1", "-", "n", "o", "n", "e" >>, << "T", "A", "S", "1", "2", "0" >>, << "J", "Q", "1" >>, << "M", "K", "8", "6", "2", "8" >>, << "N", "M", "0", "0", "2" >>, << "T", "A", "S", "1", "2", "0", "+", "J", "Q", "1" >>,
     << "T", "A", "S", "1", "2", "0", "+", "M", "K", "8", "6", "2", "8" >>, << "T", "A", "S", "1", "2", "0", "+", "N", "M", "0", "0", "2" >>, << "D", "M", "S", "O" >> >>

\* the name of the export of organoid o of group token g in batch token b
I2Name(b, g, o) ==
  Join(<< DateToken, BatchPrefix \o Str(b), GroupPrefix \o Str(g), OrgToken(o), DtsSuffix >>)

\* the name a token ending with one of the digits of names stands for; cur if
\* it ends with none of them
EndDigitName(string, names, first, cur) ==
  LET hit == { i \in 1..Len(names) : EndsWith(string, Str(first + i - 1)) }
  IN  IF hit = {} THEN cur ELSE names[Max(hit)]

\* the inner loop of GbmInvasion2.extract_data; org, batch and group are
\* locals of the method and keep the value of an earlier file
RECURSIVE I2ScanTokens(_, _)
I2ScanTokens(tokens, st) ==
  IF tokens = << >> THEN st
  ELSE LET string == Head(tokens)
           s1 == IF StartsWith(string, OrgPrefix) THEN [st EXCEPT !.org = string] ELSE st
           s2 == IF StartsWith(string, BatchPrefix)
                 THEN [s1 EXCEPT !.batch = EndDigitName(string, batch_names, 1, s1.batch)]
                 ELSE s1
           s3 == IF StartsWith(string, GroupPrefix)
                 THEN [s2 EXCEPT !.group = EndDigitName(string, I2GroupNames, 0, s2.group)]
                 ELSE s2
       IN  I2ScanTokens(Tail(tokens), s3)

RECURSIVE I2ExtractLoop(_, _)
I2ExtractLoop(files, st) ==
  IF files = << >> \/ st.err THEN st
  ELSE LET f == Head(files)
           s == I2ScanTokens(Split(f.name, separator), st)
           org_identifier == Join(<< s.batch, s.group, s.org >>)
       IN  IF s.org = << >> \/ s.batch = << >> \/ s.group = << >>
           THEN [s EXCEPT !.err = TRUE]
           ELSE I2ExtractLoop(Tail(files),
                  [s EXCEPT !.dct = IF Contains(f.name, << "v", "o", "l" >>) \/ DictHas(s.dct, org_identifier)
                                    THEN s.dct
                                    ELSE Append(s.dct, << org_identifier, f.data >>)])

\* GbmInvasion2.extract_data(self.dts_path): the first file of an identifier
\* gives its distances
i2_extract_data(files) ==
  I2ExtractLoop(files,
                [ dct |-> << >>, org |-> << >>, batch |-> << >>, group |-> << >>, err |-> FALSE ])

\* self.ordered_all: the organoids of every group of ordered_groups, group by group
i2_ordered_all(unordered_all, order) ==
  Flatten([ g \in 1..Len(order) |->
              SelectSeq(unordered_all, LAMBDA org_id : DropLast(org_id, 5) = order[g]) ])

\* a combine that gives every group of ordered_groups a column, the groups
\* without cells too
i2_mk_dfcomb_keepempty(df, order) ==
  LET flat == [ g \in 1..Len(order) |->
                  << order[g],
                     Flatten([ c \in 1..Len(df) |->
                                 IF DropLast(df[c].name, 5) = order[g]
                                 THEN df[c].vals ELSE << >> ]) >> ]
      combined_dict == Dedup(flat)
  IN  mk_df(combined_dict, << DictKeys(combined_dict) >>)

\* GbmInvasion2.mk_dfcomb(df): the cells of the columns of each group of
\* ordered_groups end to end, the missing cells with them; a group without
\* cells gets no column
i2_mk_dfcomb(df, order) ==
  LET flat == [ g \in 1..Len(order) |->
                  << order[g],
                     Flatten([ c \in 1..Len(df) |->
                                 IF DropLast(df[c].name, 5) = order[g]
                                 THEN df[c].vals ELSE << >> ]) >> ]
      combined_dict == Dedup(SelectSeq(flat, LAMBDA e : e[2] # << >>))
  IN  mk_df(combined_dict, << DictKeys(combined_dict) >>)

\* split_batches(df): the columns of each batch of batch_names
split_batches(df, all) ==
  [ b \in 1..Len(batch_names) |->
      Reindex(df, << SelectSeq(all, LAMBDA org : StartsWith(org, batch_names[b])) >>) ]

\* self.invasion_quantile
invasion_quantile == << 3, 4 >>

\* GbmInvasion2.get_invasion_threshold(df); mean([]) raises StatisticsError
i2_get_invasion_threshold(df) ==
  MeanQ(values_to_average(df, invasion_quantile, << "D", "M", "S", "O" >>), invasion_quantile)

i2_get_invasion_threshold_raises(df) ==
  values_to_average(df, invasion_quantile, << "D", "M", "S", "O" >>) = << >>

\* mk_df_greaterthan(df)
mk_df_greaterthan(df) ==
  LET invasion_threshold == i2_get_invasion_threshold(df)
  IN  [ c \in 1..Len(df) |->
          [ name |-> df[c].name,
            vals |-> << Len(SelectSeq(df[c].vals,
                                      LAMBDA i : GreaterQ(i, invasion_threshold))) >> ] ]

\* the control organoids of the batches 2, 3 and 4
I2OtherBatches ==
  << [ name |-> I2Name(2, 8, 1), data |-> << 2, 0 - 1, 0 >> ],
     [ name |-> I2Name(3, 8, 1), data |-> << 0 >> ],
     [ name |-> I2Name(4, 8, 1), data |-> << 2, 2 >> ] >>

\* the exports of GbmInvasion2's dts_path: in batch 1, two control organoids
\* with any contents and a treated one; the batches 2 to 4, or 2 and 3 only
I2Files ==
  { << [ name |-> I2Name(1, 8, 1), data |-> d1 ],
       [ name |-> I2Name(1, 1, 1), data |-> << 0, 2, 0 - 1 >> ],
       [ name |-> I2Name(1, 8, 2), data |-> d2 ] >> \o SubSeq(I2OtherBatches, 1, k) :
    d1 \in DataLists, d2 \in DataLists, k \in { 2, 3 } }

\* ordered_groups, the groups "batch_group" in display order
I2OrderedGroups ==
  << Join(<< batch_names[1], I2GroupNames[9] >>), Join(<< batch_names[1], I2GroupNames[2] >>),
     Join(<< batch_names[2], I2GroupNames[9] >>), Join(<< batch_names[3], I2GroupNames[9] >>),
     Join(<< batch_names[4], I2GroupNames[9] >>) >>

I2Init ==
  /\ pc = "i2_init"
  /\ glob_dts \in I2Files
  /\ groups_order = Empty /\ time_points = Empty /\ arbitrary_thresholds = Empty
  /\ groups = Empty
  /\ dts_dict = Empty /\ dts_df = Empty /\ dts_df_tidy = Empty
  /\ df_cols = Empty /\ dfcomb_cols = Empty
  /\ ordered_groups = I2OrderedGroups
  /\ ordered_all = Empty
  /\ dts_dfcomb = Empty /\ dts_dfcomb_tidy = Empty
  /\ cn_df = Empty /\ cn_dfcomb = Empty
  /\ g_dict = Empty /\ g_df = Empty /\ g_dfcomb = Empty
  /\ l_dict = Empty /\ l_df = Empty /\ l_dfcomb = Empty
  /\ cn_dictcomb_avg = Empty /\ g_dictcomb_avg = Empty /\ l_dictcomb_avg = Empty
  /\ cn_dfcomb_normtot = Empty /\ cn_dfcomb_normless = Empty
  /\ g_dfcomb_normtot = Empty /\ g_dfcomb_normless = Empty
  /\ l_dfcomb_normtot = Empty /\ l_dfcomb_normless = Empty
  /\ NoStats
  /\ NoCalls
  /\ NoEx
  /\ NoI2
  /\ NoMg

\* the attributes GbmInvasion2 shares with GbmInvasion and does not assign here
i2Rest ==
  << giArgs, groups, df_cols, dfcomb_cols, ordered_groups,
     g_dict, g_df, g_dfcomb, l_dict, l_df, l_dfcomb, giAvgs, giNorms,
     dts_df_descriptives, dts_df_normfirst_descriptives,
     dts_dict_rmout, dts_df_rmout, normfirst_dts_dict_rmout, normfirst_dts_df_rmout,
     giGreater, giTimes, exVars, mgVars, callVars >>

\* self.dts_dict_withneg and self.ordered_all
I2Extract ==
  /\ pc = "i2_init"
  /\ LET r == i2_extract_data(glob_dts)
     IN  /\ dts_dict_withneg' = r.dct
         /\ IF r.err
            THEN /\ pc' = "error"
                 /\ UNCHANGED ordered_all
            ELSE /\ pc' = "i2_build"
                 /\ ordered_all' = << i2_ordered_all(DictKeys(r.dct), ordered_groups) >>
  /\ UNCHANGED << i2Rest, giTables, giComb, cn_df, cn_dfcomb, dts_df_normfirst,
                  dts_df_withneg, i2Batches, batch_dfs_normfirst, i2Counts >>

\* dts_df_withneg; dts_dict without the negative distances, dts_df and
\* dts_dfcomb with their tidy tables; the tables of every batch
I2BuildDts ==
  /\ pc = "i2_build"
  /\ LET filtered == RemoveNegatives(dts_dict_withneg)
         df == mk_df(filtered, ordered_all)
         comb == i2_mk_dfcomb(df, ordered_groups)
         batches == split_batches(df, ordered_all[1])
     IN  /\ dts_df_withneg' = mk_df(dts_dict_withneg, ordered_all)
         /\ dts_dict' = filtered
         /\ dts_df' = df
         /\ dts_df_tidy' = mk_tidy(df)
         /\ dts_dfcomb' = comb
         /\ dts_dfcomb_tidy' = mk_tidy(comb)
         /\ batch_dfs' = batches
         /\ batch_dfscomb' = [ b \in 1..Len(batches) |-> i2_mk_dfcomb(batches[b], ordered_groups) ]
  /\ pc' = "i2_normfirst"
  /\ UNCHANGED << i2Rest, ordered_all, cn_df, cn_dfcomb, dts_df_normfirst,
                  dts_dict_withneg, batch_dfs_normfirst, i2Counts >>

\* self.dts_df_normfirst and the shifted tables of every batch
I2NormFirst ==
  /\ pc = "i2_normfirst"
  /\ dts_df_normfirst' = norm_first(dts_df)
  /\ batch_dfs_normfirst' = split_batches(norm_first(dts_df), ordered_all[1])
  /\ pc' = "i2_cn"
  /\ UNCHANGED << i2Rest, ordered_all, giTables, giComb, cn_df, cn_dfcomb,
                  dts_dict_withneg, dts_df_withneg, i2Batches, i2Counts >>

\* self.cn_df, self.cn_dfcomb and the counts of every batch
I2CellNumber ==
  /\ pc = "i2_cn"
  /\ LET cnt == Count(dts_df)
         df == [ i \in 1..Len(cnt) |-> [ name |-> cnt[i][1], vals |-> << cnt[i][2] >> ] ]
     IN  /\ cn_df' = df
         /\ cn_dfcomb' = i2_mk_dfcomb(df, ordered_groups)
         /\ batch_cns' = split_batches(df, ordered_all[1])
  /\ pc' = "i2_greater"
  /\ UNCHANGED << i2Rest, ordered_all, giTables, giComb, dts_df_normfirst,
                  dts_dict_withneg, dts_df_withneg, i2Batches, batch_dfs_normfirst,
                  invasion_thresholds, batch_gs_number >>

\* self.invasion_thresholds and self.batch_gs_number
I2GreaterThan ==
  /\ pc = "i2_greater"
  /\ IF \E b \in 1..Len(batch_dfs_normfirst) :
          i2_get_invasion_threshold_raises(batch_dfs_normfirst[b])
     THEN /\ pc' = "error"
          /\ UNCHANGED << invasion_thresholds, batch_gs_number >>
     ELSE /\ invasion_thresholds' =
               [ b \in 1..Len(batch_dfs_normfirst) |->
                   i2_get_invasion_threshold(batch_dfs_normfirst[b]) ]
          /\ batch_gs_number' =
               [ b \in 1..Len(batch_dfs_normfirst) |-> mk_df_greaterthan(batch_dfs_normfirst[b]) ]
          /\ pc' = "i2_done"
  /\ UNCHANGED << i2Rest, ordered_all, giTables, giComb, cn_df, cn_dfcomb, dts_df_normfirst,
                  dts_dict_withneg, dts_df_withneg, i2Batches, batch_dfs_normfirst, batch_cns >>

(***************************************************************************)
(* The three pipelines on files with arbitrary contents                    *)
(***************************************************************************)
\* the exports of GbmInvasion's dts_path: two organoids of one group at the
\* first time point with any contents, and one of the other group
GiFiles ==
  { << [ name |-> Join(<< DateToken, << "A" >>, DayToken(2), OrgToken(1), DtsSuffix >>),
         data |-> d1 ],
       [ name |-> Join(<< DateToken, << "A", "B" >>, DayToken(2), OrgToken(1), DtsSuffix >>),
         data |-> << 0, 2, 0 - 1 >> ],
       [ name |-> Join(<< DateToken, << "A" >>, DayToken(2), OrgToken(2), DtsSuffix >>),
         data |-> d2 ] >> :
    d1 \in DataLists, d2 \in DataLists }

GiDataInit ==
  /\ pc = "init"
  /\ glob_dts \in GiFiles
  /\ groups_order = << Label(<< "A", "B" >>, 2), Label(<< "A", "B" >>, 12),
                       Label(<< "A" >>, 2), Label(<< "A" >>, 12) >>
  /\ time_points \in TimePointChoices
  /\ arbitrary_thresholds = << 0, 2 >>
  /\ NoAttributes
  /\ NoStats
  /\ NoCalls
  /\ NoEx
  /\ NoI2
  /\ NoMg

DataInit == GiDataInit \/ ExInit \/ I2Init

DataNext ==
  \/ Next
  \/ ExExtract
  \/ ExCombine
  \/ ExInvasion
  \/ I2Extract
  \/ I2BuildDts
  \/ I2NormFirst
  \/ I2CellNumber
  \/ I2GreaterThan

DataSpec == DataInit /\ [][DataNext]_vars

(***************************************************************************)
(* The three pipelines on files whose names may lack a token               *)
(***************************************************************************)
\* "a_b_c" from the tokens that are there; an absent token is << >>
JoinPresent(tokens) == Join(SelectSeq(tokens, LAMBDA t : t # << >>))

\* the organoid token of a file name, or none
OrgTokenChoices == { << >>, OrgToken(1), OrgToken(2) }

\* two exports of GbmInvasion's dts_path, each with or without a group token
\* and an organoid token
GiParseFiles ==
  { fs \in { << [ name |-> JoinPresent(<< DateToken, g1, DayToken(2), o1, DtsSuffix >>),
                  data |-> << 1, 3 >> ],
                [ name |-> JoinPresent(<< DateToken, g2, DayToken(2), o2, DtsSuffix >>),
                  data |-> << 5 >> ] >> :
              g1 \in { << >> } \cup GroupNames, g2 \in { << >> } \cup GroupNames,
              o1 \in OrgTokenChoices, o2 \in OrgTokenChoices } :
    fs[1].name # fs[2].name }

\* two exports of extract.GbmCellData's file_location
ExParseFiles ==
  { fs \in { << [ name |-> JoinPresent(<< DateToken, g1, o1, ExSuffix >>), data |-> << 0, 2 >> ],
                [ name |-> JoinPresent(<< DateToken, g2, o2, ExSuffix >>), data |-> << 2 >> ] >> :
              g1 \in { << >>, GroupPrefix \o Str(0), GroupPrefix \o Str(1) },
              g2 \in { << >>, GroupPrefix \o Str(0), GroupPrefix \o Str(1) },
              o1 \in OrgTokenChoices, o2 \in OrgTokenChoices } :
    fs[1].name # fs[2].name }

\* two exports of batch 1 of GbmInvasion2's dts_path, then the control
\* organoids of the other batches
I2ParseFiles ==
  { fs \o I2OtherBatches :
    fs \in { pair \in { << [ name |-> JoinPresent(<< DateToken, BatchPrefix \o Str(1), g1, o1, DtsSuffix >>),
                              data |-> << 0, 2 >> ],
                            [ name |-> JoinPresent(<< DateToken, BatchPrefix \o Str(1), g2, o2, DtsSuffix >>),
                              data |-> << 2 >> ] >> :
                         g1 \in { << >>, GroupPrefix \o Str(8), GroupPrefix \o Str(1) },
                         g2 \in { << >>, GroupPrefix \o Str(8), GroupPrefix \o Str(1) },
                         o1 \in OrgTokenChoices, o2 \in OrgTokenChoices } :
              pair[1].name # pair[2].name } }

ParseInit ==
  /\ \/ /\ pc = "init"
        /\ glob_dts \in GiParseFiles
        /\ groups_order = << Label(<< "A", "B" >>, 2), Label(<< "A", "B" >>, 12),
                             Label(<< "A" >>, 2), Label(<< "A" >>, 12) >>
        /\ time_points \in TimePointChoices
        /\ arbitrary_thresholds = << 0, 2 >>
        /\ ordered_groups = Empty
     \/ /\ pc = "ex_init"
        /\ glob_dts \in ExParseFiles
        /\ groups_order = Empty /\ time_points = Empty /\ arbitrary_thresholds = Empty
        /\ ordered_groups = Empty
     \/ /\ pc = "i2_init"
        /\ glob_dts \in I2ParseFiles
        /\ groups_order = Empty /\ time_points = Empty /\ arbitrary_thresholds = Empty
        /\ ordered_groups = I2OrderedGroups
  /\ groups = Empty
  /\ dts_dict = Empty /\ dts_df = Empty /\ dts_df_tidy = Empty
  /\ df_cols = Empty /\ dfcomb_cols = Empty
  /\ ordered_all = Empty
  /\ dts_dfcomb = Empty /\ dts_dfcomb_tidy = Empty
  /\ cn_df = Empty /\ cn_dfcomb = Empty
  /\ g_dict = Empty /\ g_df = Empty /\ g_dfcomb = Empty
  /\ l_dict = Empty /\ l_df = Empty /\ l_dfcomb = Empty
  /\ cn_dictcomb_avg = Empty /\ g_dictcomb_avg = Empty /\ l_dictcomb_avg = Empty
  /\ cn_dfcomb_normtot = Empty /\ cn_dfcomb_normless = Empty
  /\ g_dfcomb_normtot = Empty /\ g_dfcomb_normless = Empty
  /\ l_dfcomb_normtot = Empty /\ l_dfcomb_normless = Empty
  /\ NoStats
  /\ NoCalls
  /\ NoEx
  /\ NoI2
  /\ NoMg

ParseSpec == ParseInit /\ [][DataNext]_vars

(***************************************************************************)
(* The three pipelines on a folder that holds a second export of an        *)
(* organoid                                                                *)
(***************************************************************************)
\* the date that opens the name of the later export
LaterDateToken == << "2", "1" >>

\* the contents of the first and of the second export
FirstData == { << 1, 3 >>, << 0 - 1, 2 >> }

SecondData == { << 5 >>, << 0, 4 >> }

\* an export of organoid 1 and, after it, an export of organoid 1 or 2 of the
\* same group
GiDupFiles ==
  { << [ name |-> Join(<< DateToken, << "A" >>, DayToken(2), OrgToken(1), DtsSuffix >>),
         data |-> d1 ],
       [ name |-> Join(<< LaterDateToken, << "A" >>, DayToken(2), OrgToken(o), DtsSuffix >>),
         data |-> d2 ] >> :
    d1 \in FirstData, d2 \in SecondData, o \in OrgIndices }

ExDupFiles ==
  { << [ name |-> Join(<< DateToken, GroupPrefix \o Str(0), OrgToken(1), ExSuffix >>),
         data |-> d1 ],
       [ name |-> Join(<< LaterDateToken, GroupPrefix \o Str(0), OrgToken(o), ExSuffix >>),
         data |-> d2 ] >> :
    d1 \in FirstData, d2 \in SecondData, o \in OrgIndices }

I2DupFiles ==
  { << [ name |-> Join(<< DateToken, BatchPrefix \o Str(1), GroupPrefix \o Str(8),
                          OrgToken(1), DtsSuffix >>),
         data |-> d1 ],
       [ name |-> Join(<< LaterDateToken, BatchPrefix \o Str(1), GroupPrefix \o Str(8),
                          OrgToken(o), DtsSuffix >>),
         data |-> d2 ] >> \o I2OtherBatches :
    d1 \in FirstData, d2 \in SecondData, o \in OrgIndices }

DupInit ==
  /\ \/ /\ pc = "init"
        /\ glob_dts \in GiDupFiles
        /\ groups_order = << Label(<< "A", "B" >>, 2), Label(<< "A", "B" >>, 12),
                             Label(<< "A" >>, 2), Label(<< "A" >>, 12) >>
        /\ time_points \in TimePointChoices
        /\ arbitrary_thresholds = << 0, 2 >>
        /\ ordered_groups = Empty
     \/ /\ pc = "ex_init"
        /\ glob_dts \in ExDupFiles
        /\ groups_order = Empty /\ time_points = Empty /\ arbitrary_thresholds = Empty
        /\ ordered_groups = Empty
     \/ /\ pc = "i2_init"
        /\ glob_dts \in I2DupFiles
        /\ groups_order = Empty /\ time_points = Empty /\ arbitrary_thresholds = Empty
        /\ ordered_groups = I2OrderedGroups
  /\ groups = Empty
  /\ dts_dict = Empty /\ dts_df = Empty /\ dts_df_tidy = Empty
  /\ df_cols = Empty /\ dfcomb_cols = Empty
  /\ ordered_all = Empty
  /\ dts_dfcomb = Empty /\ dts_dfcomb_tidy = Empty
  /\ cn_df = Empty /\ cn_dfcomb = Empty
  /\ g_dict = Empty /\ g_df = Empty /\ g_dfcomb = Empty
  /\ l_dict = Empty /\ l_df = Empty /\ l_dfcomb = Empty
  /\ cn_dictcomb_avg = Empty /\ g_dictcomb_avg = Empty /\ l_dictcomb_avg = Empty
  /\ cn_dfcomb_normtot = Empty /\ cn_dfcomb_normless = Empty
  /\ g_dfcomb_normtot = Empty /\ g_dfcomb_normless = Empty
  /\ l_dfcomb_normtot = Empty /\ l_dfcomb_normless = Empty
  /\ NoStats
  /\ NoCalls
  /\ NoEx
  /\ NoI2
  /\ NoMg

DuplicateSpec == DupInit /\ [][DataNext]_vars

(***************************************************************************)
(* The three pipelines on a folder whose organoids are numbered up to ten  *)
(***************************************************************************)
\* the index of the last organoid of the first group: one digit or two
LastOrgIndices == { 2, 10 }

\* the organoids 1 and o of the first group and organoid 1 of the second
GiIndexFiles ==
  { << [ name |-> Join(<< DateToken, << "A" >>, DayToken(2), OrgToken(1), DtsSuffix >>),
         data |-> d1 ],
       [ name |-> Join(<< DateToken, << "A" >>, DayToken(2), OrgToken(o), DtsSuffix >>),
         data |-> d2 ],
       [ name |-> Join(<< DateToken, << "A", "B" >>, DayToken(2), OrgToken(1), DtsSuffix >>),
         data |-> << 2, 0 >> ] >> :
    d1 \in FirstData, d2 \in SecondData, o \in LastOrgIndices }

ExIndexFiles ==
  { << [ name |-> ExName(0, 1), data |-> d1 ], [ name |-> ExName(0, o), data |-> d2 ],
       [ name |-> ExName(1, 1), data |-> << 2, 0 >> ] >> :
    d1 \in FirstData, d2 \in SecondData, o \in LastOrgIndices }

I2IndexFiles ==
  { << [ name |-> I2Name(1, 8, 1), data |-> d1 ], [ name |-> I2Name(1, 8, o), data |-> d2 ],
       [ name |-> I2Name(1, 1, 1), data |-> << 0, 2, 0 - 1 >> ] >> \o I2OtherBatches :
    d1 \in FirstData, d2 \in SecondData, o \in LastOrgIndices }

IndexInit ==
  /\ \/ /\ pc = "init"
        /\ glob_dts \in GiIndexFiles
        /\ groups_order = << Label(<< "A", "B" >>, 2), Label(<< "A", "B" >>, 12),
                             Label(<< "A" >>, 2), Label(<< "A" >>, 12) >>
        /\ time_points \in TimePointChoices
        /\ arbitrary_thresholds = << 0, 2 >>
        /\ ordered_groups = Empty
     \/ /\ pc = "ex_init"
        /\ glob_dts \in ExIndexFiles
        /\ groups_order = Empty /\ time_points = Empty /\ arbitrary_thresholds = Empty
        /\ ordered_groups = Empty
     \/ /\ pc = "i2_init"
        /\ glob_dts \in I2IndexFiles
        /\ groups_order = Empty /\ time_points = Empty /\ arbitrary_thresholds = Empty
        /\ ordered_groups = I2OrderedGroups
  /\ groups = Empty
  /\ dts_dict = Empty /\ dts_df = Empty /\ dts_df_tidy = Empty
  /\ df_cols = Empty /\ dfcomb_cols = Empty
  /\ ordered_all = Empty
  /\ dts_dfcomb = Empty /\ dts_dfcomb_tidy = Empty
  /\ cn_df = Empty /\ cn_dfcomb = Empty
  /\ g_dict = Empty /\ g_df = Empty /\ g_dfcomb = Empty
  /\ l_dict = Empty /\ l_df = Empty /\ l_dfcomb = Empty
  /\ cn_dictcomb_avg = Empty /\ g_dictcomb_avg = Empty /\ l_dictcomb_avg = Empty
  /\ cn_dfcomb_normtot = Empty /\ cn_dfcomb_normless = Empty
  /\ g_dfcomb_normtot = Empty /\ g_dfcomb_normless = Empty
  /\ l_dfcomb_normtot = Empty /\ l_dfcomb_normless = Empty
  /\ NoStats
  /\ NoCalls
  /\ NoEx
  /\ NoI2
  /\ NoMg


IndexSpec == IndexInit /\ [][DataNext]_vars

(***************************************************************************)
(* gbm_org_analysis/integrate.py: GbmCellData                              *)
(***************************************************************************)
\* an organoid of a replicate: its group, its index and its number of cells
Organoid(g, o, cells) == [ group |-> g, org |-> o, cells |-> cells ]

\* the organoids a replicate may hold, in the order of its dts_tidy sheet
ReplicateShapes ==
  { << Organoid(<< "D", "M", "S", "O" >>, 1, 2), Organoid(<< "D", "M", "S", "O" >>, 2, 1) >>,
    << Organoid(<< "D", "M", "S", "O" >>, 1, 2) >>,
    << Organoid(<< "D", "M", "S", "O" >>, 1, 2), Organoid(<< "T", "A", "S" >>, 1, 1), Organoid(<< "T", "A", "S" >>, 2, 1) >>,
    << Organoid(<< "D", "M", "S", "O" >>, 1, 2), Organoid(<< "D", "M", "S", "O" >>, 3, 1) >>,
    << Organoid(<< "D", "M", "S", "O" >>, 1, 1), Organoid(<< "D", "M", "S", "O" >>, 2, 1), Organoid(<< "D", "M", "S", "O" >>, 3, 1) >>,
    << Organoid(<< "T", "A", "S" >>, 1, 1) >>,
    << Organoid(<< "D", "M", "S", "O" >>, 9, 1), Organoid(<< "T", "A", "S" >>, 1, 2) >> }

\* the dts_tidy sheet of replicate r: rows << Org, DTS >>, organoid after
\* organoid; a distance tells its replicate, organoid and place
Sheet(shape, r) ==
  Flatten([ p \in 1..Len(shape) |->
              [ k \in 1..shape[p].cells |->
                  << Join(<< shape[p].group, OrgToken(shape[p].org) >>), 100 * r + 10 * p + k >> ] ])

\* all sequences over S of length 1..k
RECURSIVE SeqsUpTo(_, _)
SeqsUpTo(S, k) ==
  IF k = 0 THEN { << >> }
  ELSE LET shorter == SeqsUpTo(S, k - 1)
       IN  shorter \cup { Append(a, x) : a \in { b \in shorter : Len(b) = k - 1 }, x \in S }

\* cumulative(lst)
RECURSIVE cumulative(_)
cumulative(lst) ==
  IF lst = << >> THEN << >>
  ELSE LET before == cumulative(SubSeq(lst, 1, Len(lst) - 1))
       IN  Append(before, (IF before = << >> THEN 0 ELSE before[Len(before)]) + lst[Len(lst)])

\* list(dict.fromkeys(list(dts['Org'])))
OrgNames(sheet) == Dedup([ r \in 1..Len(sheet) |-> sheet[r][1] ])

\* [(group, all_orgs_as_groupname.count(group)) for group in set(all_orgs_as_groupname)]
OrgsPerGroup(sheet) ==
  LET all_orgs_as_groupname == [ i \in 1..Len(OrgNames(sheet)) |-> DropLast(OrgNames(sheet)[i], 5) ]
  IN  { << g, Len(SelectSeq(all_orgs_as_groupname, LAMBDA x : x = g)) >> :
        g \in Range(all_orgs_as_groupname) }

\* orgs_per_group_by_group[group]: the count of the group in every experiment
\* that holds it, in the order of the experiments
CountsOfGroup(by_exp, g) ==
  Flatten([ e \in 1..Len(by_exp) |->
              IF \E t \in by_exp[e] : t[1] = g
              THEN << (CHOOSE t \in by_exp[e] : t[1] = g)[2] >> ELSE << >> ])

\* int(org[-1:])
LastDigit(org) == DigitVal(org[Len(org)])

\* the identifier of a row of replicate k > 1: its last digit plus
\* org_count[n - 2], the rest of the name kept
NewOrg(org, by_exp, k) ==
  DropLast(org, 1) \o Str(LastDigit(org) + cumulative(CountsOfGroup(by_exp, DropLast(org, 5)))[k - 1])

\* org_count[n - 2] is past the end of the list of a group of the sheet
RenumberRaises(sheet, by_exp, k) ==
  \E r \in 1..Len(sheet) : Len(CountsOfGroup(by_exp, DropLast(sheet[r][1], 5))) < k - 1

\* groups: the first token of the organoid names of the sheet
GroupsOf(sheet) ==
  Dedup([ i \in 1..Len(OrgNames(sheet)) |-> Split(OrgNames(sheet)[i], separator)[1] ])

\* pd.concat(values) of the dts sheets: rows << label, Org, DTS >>, the label
\* of a row is its place in its own sheet
ConcatSheets(sheets) ==
  Flatten([ e \in 1..Len(sheets) |->
              [ r \in 1..Len(sheets[e]) |-> << r - 1, sheets[e][r][1], sheets[e][r][2] >> ] ])

\* pivot raises ValueError when a label holds two rows of one Org
PivotRaises(rows) ==
  \E i, j \in 1..Len(rows) : i # j /\ rows[i][1] = rows[j][1] /\ rows[i][2] = rows[j][2]

\* data['dts'].pivot(columns='Org', values='DTS'): a row per label, a column per Org
Pivot(rows) ==
  LET labels == SortedInts(Dedup([ i \in 1..Len(rows) |-> rows[i][1] ]))
      orgs == SortedStrs({ rows[i][2] : i \in 1..Len(rows) })
  IN  [ c \in 1..Len(orgs) |->
          [ name |-> orgs[c],
            vals |-> [ l \in 1..Len(labels) |->
                         IF \E i \in 1..Len(rows) : rows[i][1] = labels[l] /\ rows[i][2] = orgs[c]
                         THEN rows[CHOOSE i \in 1..Len(rows) :
                                     rows[i][1] = labels[l] /\ rows[i][2] = orgs[c]][3]
                         ELSE NaN ] ] ]

\* new_order: the organoids of every group of groups, in their order in the
\* concatenated sheets
NewOrder(rows, grps) ==
  LET old_order == Dedup([ i \in 1..Len(rows) |-> rows[i][2] ])
  IN  Flatten([ g \in 1..Len(grps) |-> SelectSeq(old_order, LAMBDA org : StartsWith(org, grps[g])) ])

MgInit ==
  /\ pc = "mg_loop"
  /\ \E shapes \in SeqsUpTo(ReplicateShapes, MaxReps) :
       /\ shapes # << >>
       /\ data_locations = [ r \in 1..Len(shapes) |-> Sheet(shapes[r], r) ]
  /\ n = 0
  /\ orgs_per_group_by_exp = Empty /\ data_by_exp = Empty /\ data_dts = Empty
  /\ glob_dts = Empty
  /\ groups_order = Empty /\ time_points = Empty /\ arbitrary_thresholds = Empty
  /\ NoAttributes
  /\ NoStats
  /\ NoCalls
  /\ NoEx
  /\ NoI2

\* the attributes no statement of integrate.GbmCellData.__init__ touches
notMg ==
  << giArgs, giTables, giOrder, giComb, giCounts, giAvgs, giNorms, giStats, giGreater, giTimes,
     filenames_dict, dts, dts_bygroup, dts_tidy, exCounts, exInv, i2Vars, callVars >>

\* one turn of the loop over data_locations
MgReplicate ==
  /\ pc = "mg_loop"
  /\ n < Len(data_locations)
  /\ LET k == n + 1
         sheet == data_locations[k]
         by_exp == Append(orgs_per_group_by_exp, OrgsPerGroup(sheet))
     IN  /\ n' = k
         /\ groups' = GroupsOf(sheet)
         /\ orgs_per_group_by_exp' = by_exp
         /\ IF k # 1 /\ RenumberRaises(sheet, by_exp, k)
            THEN /\ pc' = "error"
                 /\ UNCHANGED data_by_exp
            ELSE /\ pc' = "mg_loop"
                 /\ data_by_exp' =
                      Append(data_by_exp,
                             IF k = 1 THEN sheet
                             ELSE [ r \in 1..Len(sheet) |->
                                      << NewOrg(sheet[r][1], by_exp, k), sheet[r][2] >> ])
  /\ UNCHANGED << notMg, data_locations, data_dts, dts_bygroup_tidy >>

\* the sheets end to end, the columns put in new_order, the tidy tables
MgMerge ==
  /\ pc = "mg_loop"
  /\ n = Len(data_locations)
  /\ LET rows == ConcatSheets(data_by_exp)
         df == Reindex(Pivot(rows), << NewOrder(rows, groups) >>)
         tidy == Melt(df)
     IN  IF PivotRaises(rows)
         THEN /\ pc' = "error"
              /\ UNCHANGED << data_dts, dts_bygroup_tidy >>
         ELSE /\ pc' = "mg_done"
              /\ data_dts' = tidy
              /\ dts_bygroup_tidy' =
                   [ r \in 1..Len(tidy) |-> << Split(tidy[r][1], separator)[1], tidy[r][2] >> ]
  /\ UNCHANGED << notMg, groups, data_locations, n, orgs_per_group_by_exp, data_by_exp >>

MergeNext == MgReplicate \/ MgMerge

MergeSpec == MgInit /\ [][MergeNext]_vars

(***************************************************************************)
(* GbmInvasion.krus and gbm_org_analysis/stats.py: anova                   *)
(***************************************************************************)
\* no constructor runs while a call is made on its own
NoConstruction ==
  /\ glob_dts = Empty
  /\ groups_order = Empty /\ time_points = Empty /\ arbitrary_thresholds = Empty
  /\ NoAttributes
  /\ NoStats
  /\ NoEx
  /\ NoI2
  /\ NoMg


\* a column of a combined table: len values, then padding; a value tells its
\* column and its row
StatColumn(c, len, rows) == Pad([ r \in 1..len |-> 10 * c + r ], rows)

\* the combined tables of k groups with at most MaxRows rows; one column at
\* least fills the table
StatTables(k) ==
  UNION { { [ c \in 1..k |-> [ name |-> ordered_group_names[c],
                               vals |-> StatColumn(c, lens[c], rows) ] ] :
            lens \in { l \in [ 1..k -> 0..rows ] : \E c \in 1..k : l[c] = rows } } :
          rows \in 1..MaxRows }

\* cols_to_list(df): the values of every column, the missing cells left out
cols_to_list(df) == [ c \in 1..Len(df) |-> DropNaN(df[c].vals) ]

\* the samples on which scipy's tests raise or return nan, by release: fewer
\* than two samples, or a sample with fewer than two values
Degenerate(samples) == Len(samples) < 2 \/ \E i \in 1..Len(samples) : Len(samples[i]) < 2

\* the loop of krus over list_of_dfs: raised[j] tells that stats.kruskal
\* raised on table j, significant[j] that its p-value is below 0.05; i counts
\* the tables that were tested
RECURSIVE KrusLoop(_, _, _, _, _, _, _)
KrusLoop(dfs, j, i, acc, raised, significant, all) ==
  IF j > Len(dfs) THEN acc
  ELSE IF raised[j] THEN KrusLoop(dfs, j + 1, i, acc, raised, significant, all)
  ELSE KrusLoop(dfs, j + 1, i + 1,
                IF all \/ significant[j]
                THEN DictUpdate(acc, stats_list[i + 1], cols_to_list(dfs[j]))
                ELSE acc,
                raised, significant, all)

\* krus(list_of_dfs, all_results): the result of a table stands for
\* [krus_stat, pvalue], which the samples determine
krus(dfs, all, raised, significant) == KrusLoop(dfs, 1, 0, << >>, raised, significant, all)

StatsInit ==
  /\ \/ /\ pc = "krus"
        /\ list_of_dfs \in { l \in SeqsUpTo(StatTables(2), 2) : l # << >> }
        /\ all_results \in BOOLEAN
        /\ anova_df = Empty
     \/ /\ pc = "anova"
        /\ list_of_dfs = Empty
        /\ all_results = FALSE
        /\ anova_df \in StatTables(2) \cup StatTables(3)
  /\ results = Empty /\ values_list_without_nan = Empty /\ tky = {}
  /\ glob_vol = Empty /\ fullvol = 0 /\ vol_dict = Empty
  /\ vol_files_dict = Empty /\ vol = Empty
  /\ data_path = Empty /\ group_str = Empty /\ org_str = Empty /\ residual = Empty
  /\ group_num = 0 /\ org_num = 0
  /\ comb_df = Empty /\ comb_group_names = Empty /\ df_comb = Empty
  /\ groups = Empty
  /\ df_cols = Empty /\ dfcomb_cols = Empty /\ ordered_groups = Empty
  /\ NoConstruction

\* GbmInvasion.krus: an exception of stats.kruskal is caught and the table
\* passed over (except: continue); the call always returns
Krus ==
  /\ pc = "krus"
  /\ \E raised \in [ 1..Len(list_of_dfs) -> BOOLEAN ],
        significant \in [ 1..Len(list_of_dfs) -> BOOLEAN ] :
       /\ \A j \in 1..Len(list_of_dfs) :
            raised[j] => Degenerate(cols_to_list(list_of_dfs[j]))
       /\ results' = krus(list_of_dfs, all_results, raised, significant)
  /\ pc' = "krus_done"
  /\ UNCHANGED << giVars, exVars, i2Vars, mgVars, odVars, fdVars, cbVars,
                  list_of_dfs, all_results, anova_df, values_list_without_nan, tky >>

\* values_list_without_nan of anova: df.values.tolist() is the list of the
\* rows of df, and every row is kept without its missing cells
RowsWithoutNaN(df) ==
  [ r \in 1..NRows(df) |-> DropNaN([ c \in 1..Len(df) |-> df[c].vals[r] ]) ]

\* the groups pairwise_tukeyhsd compares: the labels of pd.melt(df).dropna()
TukeyGroups(df) == { row[1] : row \in Range(Melt(df)) }

\* stats.anova(df): nothing catches an exception of f_oneway or of
\* pairwise_tukeyhsd, which needs two groups at least
Anova ==
  /\ pc = "anova"
  /\ \E raised \in BOOLEAN :
       /\ raised => Degenerate(RowsWithoutNaN(anova_df))
       /\ IF raised \/ Cardinality(TukeyGroups(anova_df)) < 2
          THEN /\ pc' = "error"
               /\ UNCHANGED << values_list_without_nan, tky >>
          ELSE /\ pc' = "anova_done"
               /\ values_list_without_nan' = RowsWithoutNaN(anova_df)
               /\ tky' = { pair \in SUBSET TukeyGroups(anova_df) : Cardinality(pair) = 2 }
  /\ UNCHANGED << giVars, exVars, i2Vars, mgVars, odVars, fdVars, cbVars,
                  list_of_dfs, all_results, results, anova_df >>

StatsNext == Krus \/ Anova

StatsSpec == StatsInit /\ [][StatsNext]_vars

(***************************************************************************)
(* The volume exports: GbmInvasion2.extract_data(vol_path) and             *)
(* extract.OrganoidData                                                    *)
(***************************************************************************)
VolSuffix == << << "v", "o", "l" >>, << "V", "o", "l", "u", "m", "e", ".", "c", "s", "v" >> >>

\* the name of the volume export of organoid o of group token g in batch 1
VolName(g, o) ==
  Join(<< DateToken, BatchPrefix \o Str(1), GroupPrefix \o Str(g), OrgToken(o) >> \o VolSuffix)

\* the rows of a volume export: the organoid and the smaller objects that
\* were rendered with it
VolLists == UNION { [ 1..k -> { 1, 3 } ] : k \in 1..MaxLen }

\* the exports a glob of the volume path may find: one organoid or two
VolFiles ==
  { << [ name |-> VolName(1, 1), data |-> d1 ] >> : d1 \in VolLists }
  \cup { << [ name |-> VolName(1, 1), data |-> d1 ], [ name |-> VolName(1, 2), data |-> d2 ] >> :
         d1 \in VolLists, d2 \in VolLists }

\* if len(data) > 1: data = [max(data)], data a list
MaxOfList(data) == IF Len(data) > 1 THEN << Max(Range(data)) >> ELSE data

\* GbmInvasion2.extract_data(self.vol_path): the first file of an identifier
\* gives its volume
RECURSIVE I2VolLoop(_, _)
I2VolLoop(files, st) ==
  IF files = << >> \/ st.err THEN st
  ELSE LET f == Head(files)
           s == I2ScanTokens(Split(f.name, separator), st)
           org_identifier == Join(<< s.batch, s.group, s.org >>)
       IN  IF s.org = << >> \/ s.batch = << >> \/ s.group = << >>
           THEN [s EXCEPT !.err = TRUE]
           ELSE I2VolLoop(Tail(files),
                  [s EXCEPT !.dct = IF DictHas(s.dct, org_identifier) THEN s.dct
                                    ELSE Append(s.dct, << org_identifier, MaxOfList(f.data) >>)])

i2_extract_vol(files) ==
  I2VolLoop(files,
            [ dct |-> << >>, org |-> << >>, batch |-> << >>, group |-> << >>, err |-> FALSE ])

\* extract_org_data raises TypeError on a file with more than one row: data
\* is a DataFrame there, max(data) is its column label, data becomes the list
\* [org_id], and data[org_id] indexes a list with a str
extract_org_data_raises(fd, files) ==
  \E i \in 1..Len(fd) : Len(ReadCsv(files, fd[i][1])) > 1

\* extract_org_data(filenames_dict) on files of one row: df[org_id] is set
\* for every file, then the columns are put in the order of the groups
extract_org_data(fd, files) ==
  LET dct == [ i \in 1..Len(fd) |-> << fd[i][2], ReadCsv(files, fd[i][1]) >> ]
      byid == [ i \in 1..Len(Dedup(DictKeys(dct))) |->
                  << Dedup(DictKeys(dct))[i],
                     dct[Max({ j \in 1..Len(dct) : dct[j][1] = Dedup(DictKeys(dct))[i] })][2] >> ]
      df == FromDict(byid)
      cols == Columns(df)
      columns_order ==
        Flatten([ g \in 1..Len(ordered_group_names) |->
                    SortedStrs({ c \in Range(cols) : StartsWith(c, ordered_group_names[g]) }) ])
  IN  Reindex(df, << columns_order >>)

\* self.fullvol - df
SubtractFrom(full, df) ==
  [ c \in 1..Len(df) |->
      [ name |-> df[c].name,
        vals |-> [ r \in 1..Len(df[c].vals) |->
                     IF IsNaN(df[c].vals[r]) THEN NaN ELSE full - df[c].vals[r] ] ] ]

OrgDataInit ==
  /\ pc \in { "i2_vol", "od_init" }
  /\ glob_vol \in VolFiles
  /\ fullvol = 10
  /\ vol_dict = Empty /\ vol_files_dict = Empty /\ vol = Empty
  /\ list_of_dfs = Empty /\ all_results = FALSE /\ results = Empty
  /\ anova_df = Empty /\ values_list_without_nan = Empty /\ tky = {}
  /\ data_path = Empty /\ group_str = Empty /\ org_str = Empty /\ residual = Empty
  /\ group_num = 0 /\ org_num = 0
  /\ comb_df = Empty /\ comb_group_names = Empty /\ df_comb = Empty
  /\ groups = Empty
  /\ df_cols = Empty /\ dfcomb_cols = Empty /\ ordered_groups = Empty
  /\ NoConstruction

\* self.vol_dict = self.extract_data(self.vol_path)
I2ExtractVolume ==
  /\ pc = "i2_vol"
  /\ LET r == i2_extract_vol(glob_vol)
     IN  /\ vol_dict' = r.dct
         /\ pc' = IF r.err THEN "error" ELSE "i2_vol_done"
  /\ UNCHANGED << giVars, exVars, i2Vars, mgVars, stVars, fdVars, cbVars,
                  glob_vol, fullvol, vol_files_dict, vol >>

\* self.vol_files_dict and self.vol = self.fullvol - self.extract_org_data(...)
OdExtractVolume ==
  /\ pc = "od_init"
  /\ LET r == match_files_with_org_id(glob_vol, groups_dict)
     IN  /\ vol_files_dict' = r.dct
         /\ IF r.err \/ extract_org_data_raises(r.dct, glob_vol)
            THEN /\ pc' = "error"
                 /\ UNCHANGED vol
            ELSE /\ pc' = "od_vol"
                 /\ vol' = SubtractFrom(fullvol, extract_org_data(r.dct, glob_vol))
  /\ UNCHANGED << giVars, exVars, i2Vars, mgVars, stVars, fdVars, cbVars,
                  glob_vol, fullvol, vol_dict >>

OrgDataNext == I2ExtractVolume \/ OdExtractVolume

OrgDataSpec == OrgDataInit /\ [][OrgDataNext]_vars

(***************************************************************************)
(* gbm_org_analysis/data.py: Data                                          *)
(***************************************************************************)
\* the date of the folder of test_data.py
FolderDate == << "2", "0", "0", "4", "0", "7" >>

\* group<G> and org<N>
GroupToken(g) == << "g", "r", "o", "u", "p" >> \o Str(g)

FolderGroups == { 0, 12 }

FolderOrgs == { 1, 10 }

\* the other attributes a folder name may hold
OtherTokens ==
  { << "g", "b", "m", "2", "2" >>,
    << "b", "a", "t", "c", "h", "2" >>,
    << "o", "r", "g", "a", "n", "o", "i", "d", "s" >> }

\* os.path.basename(data_path) of the folders: the date, then one group
\* token, one org token and some of the other tokens, in any order
FolderNames ==
  { Join(<< FolderDate >> \o a) :
    a \in UNION { { b \in Arrangements({ GroupToken(g), OrgToken(o) } \cup OtherTokens, 5) :
                      /\ InList(GroupToken(g), b)
                      /\ InList(OrgToken(o), b) } :
                  g \in FolderGroups, o \in FolderOrgs } }

\* datetime.strptime(token, "%y%m%d") raises ValueError: of the tokens that
\* lead a folder name here, it accepts the six digits yymmdd of a real date
strptime_raises(token) ==
  \/ Len(token) # 6
  \/ \E i \in 1..Len(token) : ~IsDigit(token[i])
  \/ 10 * DigitVal(token[3]) + DigitVal(token[4]) \notin 1..12
  \/ 10 * DigitVal(token[5]) + DigitVal(token[6]) \notin 1..31

\* int(s) raises ValueError: s is not an optional sign and digits
int_raises(s) ==
  LET body == IF s # << >> /\ s[1] \in { "+", "-" } THEN Tail(s) ELSE s
  IN  body = << >> \/ \E i \in 1..Len(body) : ~IsDigit(body[i])

RECURSIVE DigitsValue(_)
DigitsValue(s) ==
  IF s = << >> THEN 0 ELSE 10 * DigitsValue(SubSeq(s, 1, Len(s) - 1)) + DigitVal(s[Len(s)])

\* int(s) of a string int accepts
int(s) ==
  IF s[1] = "-" THEN 0 - DigitsValue(Tail(s))
  ELSE IF s[1] = "+" THEN DigitsValue(Tail(s))
  ELSE DigitsValue(s)

\* s[k:]
DropFirst(s, k) == SubSeq(s, k + 1, Len(s))

\* for component in components[1:]: the group test comes first, and a later
\* component overwrites an earlier one
RECURSIVE ComponentLoop(_, _, _, _, _)
ComponentLoop(components, i, gs, os, res) ==
  IF i > Len(components) THEN [ group_str |-> gs, org_str |-> os, residual |-> res ]
  ELSE IF Contains(components[i], << "g", "r", "o", "u", "p" >>)
       THEN ComponentLoop(components, i + 1, components[i], os, res)
  ELSE IF Contains(components[i], OrgPrefix)
       THEN ComponentLoop(components, i + 1, gs, components[i], res)
  ELSE ComponentLoop(components, i + 1, gs, os, Append(res, components[i]))

FolderInit ==
  /\ pc = "data_init"
  /\ data_path \in FolderNames
  /\ group_str = Empty /\ org_str = Empty /\ residual = Empty
  /\ group_num = 0 /\ org_num = 0
  /\ comb_df = Empty /\ comb_group_names = Empty /\ df_comb = Empty
  /\ list_of_dfs = Empty /\ all_results = FALSE /\ results = Empty
  /\ anova_df = Empty /\ values_list_without_nan = Empty /\ tky = {}
  /\ glob_vol = Empty /\ fullvol = 0 /\ vol_dict = Empty
  /\ vol_files_dict = Empty /\ vol = Empty
  /\ NoConstruction

\* Data.__init__(data_path): an exception of strptime or of int leaves the
\* attributes after it unassigned
Data_init ==
  /\ pc = "data_init"
  /\ LET components == Split(data_path, separator)
         r == ComponentLoop(components, 2, << >>, << >>, << >>)
         group_tail == DropFirst(r.group_str, 5)
         org_tail == DropFirst(r.org_str, 3)
     IN  IF strptime_raises(components[1])
         THEN /\ pc' = "error"
              /\ UNCHANGED << group_str, org_str, residual, group_num, org_num >>
         ELSE /\ group_str' = r.group_str
              /\ org_str' = r.org_str
              /\ residual' = r.residual
              /\ group_num' = IF int_raises(group_tail) THEN group_num ELSE int(group_tail)
              /\ org_num' = IF int_raises(group_tail) \/ int_raises(org_tail)
                            THEN org_num ELSE int(org_tail)
              /\ pc' = IF int_raises(group_tail) \/ int_raises(org_tail)
                       THEN "error" ELSE "data_done"
  /\ UNCHANGED << giVars, exVars, i2Vars, mgVars, stVars, odVars, cbVars, data_path >>

FolderSpec == FolderInit /\ [][Data_init]_vars

(***************************************************************************)
(* gbm_org_analysis/extract.py: comb_df_by_group on a by-organoid table    *)
(***************************************************************************)
\* the revealed names of a key of which one name starts with another
TreatmentNames ==
  { << "D", "M", "S", "O" >>, << "T", "A", "S" >>, << "T", "A", "S", "+", "J", "Q", "1" >> }

\* group + "_" + org, the identifier match_files_with_org_id gives a file
OrgIdentifiers ==
  { Join(<< g, OrgToken(1) >>) : g \in TreatmentNames } \cup
  { Join(<< << "T", "A", "S" >>, OrgToken(2) >>) }

\* by-organoid tables of at most MaxFiles organoids: column c holds the
\* distances 10 * c + 1, 10 * c + 2, ... of its organoid, at most MaxLen of
\* them, and the padding of a shorter column
OrgTables ==
  UNION { { [ c \in 1..Len(ids) |->
              [ name |-> ids[c],
                vals |-> Pad([ r \in 1..lens[c] |-> 10 * c + r ],
                             Max({ lens[d] : d \in 1..Len(ids) })) ] ] :
            lens \in [ 1..Len(ids) -> 1..MaxLen ] } :
          ids \in { a \in Arrangements(OrgIdentifiers, MaxFiles) : a # << >> } }

CombineInit ==
  /\ pc = "comb_call"
  /\ comb_df \in OrgTables
  \* mk_comb_and_tidy_dfs: groups = list(dict.fromkeys([col[:-5] for col in df.columns]))
  /\ comb_group_names = Dedup([ c \in 1..Len(comb_df) |-> DropLast(comb_df[c].name, 5) ])
  /\ df_comb = Empty
  /\ list_of_dfs = Empty /\ all_results = FALSE /\ results = Empty
  /\ anova_df = Empty /\ values_list_without_nan = Empty /\ tky = {}
  /\ glob_vol = Empty /\ fullvol = 0 /\ vol_dict = Empty
  /\ vol_files_dict = Empty /\ vol = Empty
  /\ data_path = Empty /\ group_str = Empty /\ org_str = Empty /\ residual = Empty
  /\ group_num = 0 /\ org_num = 0
  /\ NoConstruction

\* df_bygroup = comb_df_by_group(df, groups)
CombineByGroup ==
  /\ pc = "comb_call"
  /\ df_comb' = comb_df_by_group(comb_df, comb_group_names)
  /\ pc' = "comb_done"
  /\ UNCHANGED << giVars, exVars, i2Vars, mgVars, stVars, odVars, fdVars,
                  comb_df, comb_group_names >>

CombineSpec == CombineInit /\ [][CombineByGroup]_vars

(***************************************************************************)
(* Claims on GbmInvasion.__init__ (Spec)                                   *)
(***************************************************************************)
\* the place of the group of column c in the declared order, 0 if undeclared
GroupRank(c, order) ==
  IF InList(get_group(c), order)
  THEN CHOOSE i \in 1..Len(order) : order[i] = get_group(c)
  ELSE 0

InDeclaredOrder(cols, order) ==
  \A i, j \in 1..Len(cols) : i < j => GroupRank(cols[i], order) <= GroupRank(cols[j], order)

\* C1: every per-organoid table (distances, cell counts, counts above and
\* below the thresholds) has its columns in the declared group order, whatever
\* the order in which the files were discovered.
C1_WideTablesInDeclaredOrder ==
  /\ InDeclaredOrder(Columns(dts_df), groups_order)
  /\ InDeclaredOrder(Columns(cn_df), groups_order)
  /\ InDeclaredOrder(Columns(g_df), groups_order)
  /\ InDeclaredOrder(Columns(l_df), groups_order)

\* result is table with every cell divided by the baseline entry whose group
\* is the group of the cell's column
NormalizedByOwnGroup(avg, table, result) ==
  \A c \in 1..Len(table) : \A k \in 1..Len(avg) :
    get_group(avg[k][1]) = get_group(table[c].name) =>
      /\ HasCol(result, table[c].name)
      /\ \A i \in 1..Len(table[c].vals) :
           SameQ(Col(result, table[c].name)[i], DivQ(table[c].vals[i], avg[k][2]))

\* C4: norm_to_avg2days divides every value of every column by the baseline
\* entry of the column's own group, also when one group name is a prefix of
\* another.
C4_NormalizedByOwnGroupBaseline ==
  pc = "done" =>
    /\ NormalizedByOwnGroup(cn_dictcomb_avg, cn_dfcomb, cn_dfcomb_normtot)
    /\ NormalizedByOwnGroup(l_dictcomb_avg, cn_dfcomb, cn_dfcomb_normless)
    /\ NormalizedByOwnGroup(g_dictcomb_avg, g_dfcomb, g_dfcomb_normtot)
    /\ NormalizedByOwnGroup(l_dictcomb_avg, g_dfcomb, g_dfcomb_normless)
    /\ NormalizedByOwnGroup(cn_dictcomb_avg, l_dfcomb, l_dfcomb_normtot)
    /\ NormalizedByOwnGroup(l_dictcomb_avg, l_dfcomb, l_dfcomb_normless)

FinalTimepointTag == << separator >> \o time2 \o days

\* avg has one entry per column of table without the final time point's tag,
\* the mean of the column's values that are not missing
MeansOfFirstTimepoint(table, avg) ==
  /\ DictKeys(avg) =
       SelectSeq(Columns(table), LAMBDA c : ~Contains(c, FinalTimepointTag))
  /\ \A k \in 1..Len(avg) :
       LET present == DropNaN(Col(table, avg[k][1]))
       IN  present # << >> => QEq(avg[k][2], Quot(SumSeq(present), Len(present)))

\* C5: get_avgs_2days returns one entry per group column of the first time
\* point, the mean of the column's non-missing values, also when the groups
\* have different numbers of organoids.
C5_AveragesAreMeansOfPresentValues ==
  pc \in { "normalize", "done" } =>
    /\ MeansOfFirstTimepoint(cn_dfcomb, cn_dictcomb_avg)
    /\ MeansOfFirstTimepoint(g_dfcomb, g_dictcomb_avg)
    /\ MeansOfFirstTimepoint(l_dfcomb, l_dictcomb_avg)

(***************************************************************************)
(* Claims on the three pipelines (DataSpec)                                *)
(***************************************************************************)
\* the constructor that runs and the statements it has passed
GiBuilt == pc \in { "groups", "comb", "normfirst", "describe", "rmout", "cn", "thresholds",
                    "averages", "normalize", "done" }

GiCounted == pc \in { "averages", "normalize", "done" }

GiCombined == pc \in { "normfirst", "describe", "rmout", "cn", "thresholds", "averages",
                       "normalize", "done" }

I2Built == pc \in { "i2_normfirst", "i2_cn", "i2_greater", "i2_done" }

ExBuilt == pc \in { "ex_comb", "ex_inv", "ex_done" }

ExCombined == pc \in { "ex_inv", "ex_done" }

\* the values of the organoid columns of table whose group is g, column after
\* column, without the missing cells
PresentOfGroup(table, g, GroupOf(_)) ==
  Flatten([ c \in 1..Len(table) |->
              IF GroupOf(table[c].name) = g THEN DropNaN(table[c].vals) ELSE << >> ])

\* every group of order has, in comb, the present values of its organoids
\* followed by padding only; a group without a column has no value
CombinedByGroup(table, comb, order, GroupOf(_)) ==
  \A k \in 1..Len(order) :
    LET expected == PresentOfGroup(table, order[k], GroupOf)
    IN  IF HasCol(comb, order[k])
        THEN Col(comb, order[k]) = Pad(expected, NRows(comb))
        ELSE expected = << >>

GroupBySlice(c) == DropLast(c, 5)

\* C2: the combined column of every declared group holds exactly the
\* non-missing values of the group's organoid columns, in column order, with
\* no missing entry between values.
C2_CombinedHoldsPresentValues ==
  /\ GiCombined => CombinedByGroup(dts_df, dts_dfcomb, groups_order, get_group)
  /\ I2Built => CombinedByGroup(dts_df, dts_dfcomb, ordered_groups, GroupBySlice)
  /\ ExCombined => CombinedByGroup(dts, dts_bygroup, ordered_group_names, GroupBySlice)

\* the raw values that are not negative, in order
NonNegative(data) == SelectSeq(data, LAMBDA v : v >= 0)

\* the identity the running constructor gives the file f
IdentityOf(f) ==
  IF pc \in { "ex_comb", "ex_inv", "ex_done" } THEN DictGet(filenames_dict, f.name)
  ELSE IF pc \in { "i2_normfirst", "i2_cn", "i2_greater", "i2_done" }
       THEN i2_extract_data(<< f >>).dct[1][1]
       ELSE extract_data(<< f >>, groups).dct[1][1]

\* the column of f in table is the sequence expected, then padding
ColumnIs(table, f, expected) ==
  /\ HasCol(table, IdentityOf(f))
  /\ Col(table, IdentityOf(f)) = Pad(expected, NRows(table))

\* s and t hold the same values the same number of times
SameValues(s, t) ==
  /\ Len(s) = Len(t)
  /\ \A v \in Range(s) \cup Range(t) :
       Cardinality({ i \in 1..Len(s) : s[i] = v }) = Cardinality({ i \in 1..Len(t) : t[i] = v })

\* the present values of the column of f in table are those of expected
ColumnHolds(table, f, expected) ==
  /\ HasCol(table, IdentityOf(f))
  /\ SameValues(DropNaN(Col(table, IdentityOf(f))), expected)

\* the values of data reduced by the smallest of them
ReducedByMin(data) == [ i \in 1..Len(data) |-> data[i] - Min(Range(data)) ]

\* C3 as stated: the distance column of every organoid is the subsequence of
\* its raw values that are >= 0, in order and unchanged, in every pipeline.
C3_ColumnIsNonNegativeRaw ==
  /\ (GiBuilt \/ I2Built) =>
       \A i \in 1..Len(glob_dts) : ColumnIs(dts_df, glob_dts[i], NonNegative(glob_dts[i].data))
  /\ ExBuilt =>
       \A i \in 1..Len(glob_dts) : ColumnIs(dts, glob_dts[i], NonNegative(glob_dts[i].data))

\* C3 (amended): in GbmInvasion and GbmInvasion2 the distance column of every
\* organoid is the subsequence of its raw values that are >= 0, in order and
\* unchanged; in extract.GbmCellData the column holds those values each
\* reduced by the smallest of them. Zero is kept, negatives are removed.
C3_ColumnIsNonNegativeRawOrShifted ==
  /\ (GiBuilt \/ I2Built) =>
       \A i \in 1..Len(glob_dts) : ColumnIs(dts_df, glob_dts[i], NonNegative(glob_dts[i].data))
  /\ ExBuilt =>
       \A i \in 1..Len(glob_dts) :
         ColumnHolds(dts, glob_dts[i], ReducedByMin(NonNegative(glob_dts[i].data)))

\* a file with a negative distance and a smallest kept distance above zero
\* has gone through extract.GbmCellData, and so has one holding a zero
C3_Witness ==
  /\ pc = "ex_done"
  /\ \E i \in 1..Len(glob_dts) :
       /\ \E k \in 1..Len(glob_dts[i].data) : glob_dts[i].data[k] < 0
       /\ NonNegative(glob_dts[i].data) # << >>
       /\ \A k \in 1..Len(glob_dts[i].data) : glob_dts[i].data[k] # 0
  /\ \E i \in 1..Len(glob_dts) : \E k \in 1..Len(glob_dts[i].data) : glob_dts[i].data[k] = 0

\* the numbers of present values of s above, below and at the threshold t
CountAbove(s, t) == Cardinality({ i \in 1..Len(s) : ~IsNaN(s[i]) /\ s[i] * t[2] > t[1] })

CountBelow(s, t) == Cardinality({ i \in 1..Len(s) : ~IsNaN(s[i]) /\ s[i] * t[2] < t[1] })

CountEqual(s, t) == Cardinality({ i \in 1..Len(s) : ~IsNaN(s[i]) /\ s[i] * t[2] = t[1] })

\* above is the count of s strictly above t: with the values below and at t
\* it makes up the sample
StrictlyAbove(above, s, t) ==
  above + CountBelow(s, t) + CountEqual(s, t) = Len(DropNaN(s))

\* below is the count of s strictly below t
StrictlyBelow(below, s, t) ==
  CountAbove(s, t) + below + CountEqual(s, t) = Len(DropNaN(s))

\* C9: the counts above and below a threshold use strict comparison: the
\* count above t, the count below t and the number of values equal to t add
\* up to the size of the sample, so a value equal to t is in neither count.
C9_StrictThresholdCounts ==
  /\ GiCounted =>
       \A k \in 1..Len(dts_dict) :
         LET s == dts_dict[k][2]
             g == DictGet(g_dict, dts_dict[k][1])[1]
             l == DictGet(l_dict, dts_dict[k][1])[1]
             t0 == << arbitrary_thresholds[1], 1, "q" >>
             t1 == << arbitrary_thresholds[2], 1, "q" >>
         IN  /\ StrictlyAbove(g, s, t0)
             /\ StrictlyBelow(l, s, t1)
  /\ (pc = "ex_done" /\ ~IsNaNQ(inv_thresh)) =>
       \A c \in 1..Len(dts) : StrictlyAbove(Col(inv, dts[c].name)[1], dts[c].vals, inv_thresh)
  /\ pc = "i2_done" =>
       \A b \in 1..Len(batch_dfs_normfirst) :
         ~IsNaNQ(invasion_thresholds[b]) =>
           \A c \in 1..Len(batch_dfs_normfirst[b]) :
             StrictlyAbove(Col(batch_gs_number[b], batch_dfs_normfirst[b][c].name)[1],
                           batch_dfs_normfirst[b][c].vals, invasion_thresholds[b])

\* GbmInvasion has counted an organoid holding a distance equal to the lower
\* threshold, one equal to the upper threshold and nothing else
C9_Witness ==
  /\ pc = "done"
  /\ \E k \in 1..Len(dts_dict) :
       /\ CountEqual(dts_dict[k][2], << arbitrary_thresholds[1], 1, "q" >>) = 1
       /\ CountEqual(dts_dict[k][2], << arbitrary_thresholds[2], 1, "q" >>) = 1
       /\ Len(dts_dict[k][2]) = 2
       /\ DictGet(g_dict, dts_dict[k][1]) = << 1 >>
       /\ DictGet(l_dict, dts_dict[k][1]) = << 1 >>

\* tidy has no missing value, only labels of table, and for every column of
\* table the rows with its label hold the column's present values in order
TidyOf(table, tidy) ==
  /\ \A r \in 1..Len(tidy) : ~IsNaN(tidy[r][2]) /\ HasCol(table, tidy[r][1])
  /\ \A c \in 1..Len(table) :
       LET rows == SelectSeq(tidy, LAMBDA row : row[1] = table[c].name)
       IN  [ r \in 1..Len(rows) |-> rows[r][2] ] = DropNaN(table[c].vals)

\* C10: the tidy table of a wide table has one row per non-missing entry and
\* no row with a missing value; the label of a row is the name of the column
\* its value came from, so the rows of a label are that column's values.
C10_TidyHoldsPresentCells ==
  /\ TidyOf(dts_df, dts_df_tidy)
  /\ TidyOf(dts_dfcomb, dts_dfcomb_tidy)
  /\ ExCombined =>
       /\ TidyOf(dts, dts_tidy)
       /\ TidyOf(dts_bygroup, dts_bygroup_tidy)
       /\ TidyOf(cn, cn_tidy)
       /\ TidyOf(cn_bygroup, cn_bygroup_tidy)
  /\ pc = "ex_done" =>
       /\ TidyOf(inv, inv_tidy)
       /\ TidyOf(inv_bygroup, inv_bygroup_tidy)

\* a table with a padded column has been made tidy by GbmInvasion
C10_Witness ==
  /\ pc = "done"
  /\ \E c \in 1..Len(dts_df) :
       /\ \E r \in 1..Len(dts_df[c].vals) : IsNaN(dts_df[c].vals[r])
       /\ DropNaN(dts_df[c].vals) # << >>
  /\ dts_df_tidy # << >>

(***************************************************************************)
(* Claims on rm_outliers (OutlierSpec)                                     *)
(***************************************************************************)
\* the values of sample below mean + 3 * stdev of that same sample, in order
BelowOwnStd3(sample) ==
  SelectSeq(sample, LAMBDA value : BelowStd3(value, my_describe(sample)))

\* C8: rm_outliers keeps, of every sample handed to it (the raw distances of
\* an organoid, and its min-shifted distances), exactly the values strictly
\* below mean + 3 * stdev of that same sample, in their original order.
C8_OutliersCutAtOwnStd3 ==
  pc \in { "cn", "thresholds", "averages", "normalize", "done" } =>
    /\ \A i \in 1..Len(dts_dict) :
         DictGet(dts_dict_rmout, dts_dict[i][1]) = BelowOwnStd3(dts_dict[i][2])
    /\ \A i \in 1..Len(dts_df_normfirst) :
         DictGet(normfirst_dts_dict_rmout, dts_df_normfirst[i].name)
           = BelowOwnStd3(DropNaN(dts_df_normfirst[i].vals))

(***************************************************************************)
(* Claims on the merge of replicates (MergeSpec)                           *)
(***************************************************************************)
\* the number of organoids of group g (the name without its last 5
\* characters) in a sheet
OrganoidsOfGroup(sheet, g) ==
  Cardinality({ org \in Range(OrgNames(sheet)) : DropLast(org, 5) = g })

\* the organoids of g in the replicates before replicate k
OrganoidsBefore(g, k) ==
  SumSeq([ e \in 1..(k - 1) |-> OrganoidsOfGroup(data_locations[e], g) ])

\* C6: every organoid index of a group in replicate k > 1 is increased by the
\* number of organoids of the group in the replicates 1..k-1, a replicate
\* without the group counting zero; replicate 1 keeps its identifiers.
C6_IndexRaisedByOrganoidsBefore ==
  \A k \in 1..Len(data_by_exp) :
    \A r \in 1..Len(data_by_exp[k]) :
      LET org == data_locations[k][r][1]
      IN  data_by_exp[k][r][1] =
            IF k = 1 THEN org
            ELSE DropLast(org, 1) \o Str(LastDigit(org) + OrganoidsBefore(DropLast(org, 5), k))

\* C7: after the merge no two distinct organoids, of one replicate or of two,
\* carry the same identifier in the merged tidy distance table.
C7_MergedIdentifiersUnique ==
  pc = "mg_done" =>
    \A i, j \in 1..Len(data_by_exp) :
      i < j =>
        \A a \in Range(OrgNames(data_by_exp[i])) :
          \A b \in Range(OrgNames(data_by_exp[j])) :
            a = b => \A r \in 1..Len(data_dts) : data_dts[r][1] # a

(***************************************************************************)
(* Claims on the column sets of the tables (DataSpec)                      *)
(***************************************************************************)
GiOrdered == pc \in { "comb", "normfirst", "describe", "rmout", "cn", "thresholds",
                      "averages", "normalize", "done" }

GiCellsCounted == pc \in { "thresholds", "averages", "normalize", "done" }

\* the columns of table are those of order, each once
ColumnSetIs(table, order) ==
  /\ Range(Columns(table)) = Range(order)
  /\ Len(table) = Cardinality(Range(order))

\* the number of cells, missing ones included, of the columns of group g
CellsOfGroup(table, g, GroupOf(_)) ==
  Len(Flatten([ c \in 1..Len(table) |->
                  IF GroupOf(table[c].name) = g THEN table[c].vals ELSE << >> ]))

\* every column of comb whose group has no column in table is entirely empty
EmptyWhereNoData(table, comb, GroupOf(_)) ==
  \A k \in 1..Len(comb) :
    (\A c \in 1..Len(table) : GroupOf(table[c].name) # comb[k].name) =>
      \A r \in 1..Len(comb[k].vals) : IsNaN(comb[k].vals[r])

\* the by-organoid tables of both classes hold the columns of ordered_all, and
\* the combined tables of GbmInvasion the columns of groups_order
DeclaredColumnsKept ==
  /\ GiOrdered => ColumnSetIs(dts_df, ordered_all[1])
  /\ GiCombined =>
       /\ ColumnSetIs(dts_dfcomb, groups_order)
       /\ EmptyWhereNoData(dts_df, dts_dfcomb, get_group)
  /\ GiCellsCounted =>
       /\ ColumnSetIs(cn_df, ordered_all[1])
       /\ ColumnSetIs(cn_dfcomb, groups_order)
       /\ EmptyWhereNoData(cn_df, cn_dfcomb, get_group)
  /\ GiCounted =>
       /\ ColumnSetIs(g_df, ordered_all[1])
       /\ ColumnSetIs(l_df, ordered_all[1])
       /\ ColumnSetIs(g_dfcomb, groups_order)
       /\ ColumnSetIs(l_dfcomb, groups_order)
  /\ I2Built => ColumnSetIs(dts_df, ordered_all[1])

MeanOfGroupQuantiles(df, q, g) ==
  LET orgs == SelectSeq(df, LAMBDA col : GroupBySlice(col.name) = g)
  IN  MeanQ([ i \in 1..Len(orgs) |-> Quantile(orgs[i].vals, q) ], q)

\* C12: the invasion threshold is the mean, over exactly the organoids of the
\* reference group, of each organoid's q-quantile of its own distances; the
\* organoids of a group whose name contains the reference group's name do
\* not contribute.
C12_ThresholdFromReferenceGroupOnly ==
  /\ pc = "ex_done" =>
       SameQ(inv_thresh,
             MeanOfGroupQuantiles(dts, invasion_thresh_quantile, invasion_thresh_group))
  /\ pc = "i2_done" =>
       \A b \in 1..Len(batch_dfs_normfirst) :
         SameQ(invasion_thresholds[b],
               MeanOfGroupQuantiles(batch_dfs_normfirst[b], invasion_quantile,
                                    Join(<< batch_names[b], << "D", "M", "S", "O" >> >>)))

(***************************************************************************)
(* Claims on the parsing of file names (ParseSpec)                         *)
(***************************************************************************)
\* the tokens of the name of a file
TokensOf(f) == Split(f.name, separator)

HasOrgToken(f) == \E i \in 1..Len(TokensOf(f)) : StartsWith(TokensOf(f)[i], OrgPrefix)

\* a token that names a group to the running constructor
HasGroupToken(f) ==
  \E i \in 1..Len(TokensOf(f)) :
    IF pc \in { "ex_comb", "ex_inv", "ex_done" } THEN DictHas(groups_dict, TokensOf(f)[i])
    ELSE IF pc \in { "i2_build", "i2_normfirst", "i2_cn", "i2_greater", "i2_done" }
         THEN StartsWith(TokensOf(f)[i], GroupPrefix)
         ELSE StartsWithAny(TokensOf(f)[i], groups)

\* the parsing of the file names has returned without an error
Parsed ==
  \/ pc = "build" \/ GiBuilt
  \/ pc = "i2_build" \/ I2Built
  \/ ExBuilt

\* C13: the parsing of the names ends with an error when a discovered file
\* lacks a group token or an organoid token, wherever the file stands among
\* the files: once the parsing has returned, every file has both tokens.
C13_FileWithoutTokenFailsParsing ==
  Parsed => \A i \in 1..Len(glob_dts) : HasGroupToken(glob_dts[i]) /\ HasOrgToken(glob_dts[i])

(***************************************************************************)
(* Claims on the statistical tests (StatsSpec)                             *)
(***************************************************************************)
\* some group of the table has fewer than two observations
HasSmallGroup(df) == \E c \in 1..Len(df) : Len(DropNaN(df[c].vals)) < 2

\* C14: a group-comparison test (krus, anova) on a table in which some group
\* has fewer than 2 observations ends with an error that reaches the caller:
\* the test never returns when it was handed such a table.
C14_SmallGroupFailsTest ==
  /\ pc = "krus_done" => \A j \in 1..Len(list_of_dfs) : ~HasSmallGroup(list_of_dfs[j])
  /\ pc = "anova_done" => ~HasSmallGroup(anova_df)

\* C15: stats.anova(df) hands the F test one sample per column of df, the
\* i-th being the non-missing values of the i-th column, whatever the number
\* of rows, and the post-hoc table compares every pair of the k groups:
\* C(k,2) comparisons.
C15_AnovaSamplesAreColumns ==
  pc = "anova_done" =>
    /\ values_list_without_nan = cols_to_list(anova_df)
    /\ Cardinality(tky) * 2 = Len(anova_df) * (Len(anova_df) - 1)
    /\ \A pair \in tky : pair \subseteq Range(Columns(anova_df))

(***************************************************************************)
(* Claims on the volume exports (OrgDataSpec)                              *)
(***************************************************************************)
\* the identifier GbmInvasion2 reads from the name of f
I2IdentityOf(f) ==
  LET s == I2ScanTokens(Split(f.name, separator),
                        [ dct |-> << >>, org |-> << >>, batch |-> << >>, group |-> << >>,
                          err |-> FALSE ])
  IN  Join(<< s.batch, s.group, s.org >>)

\* the largest row of a file
LargestRow(f) == Max(Range(f.data))

\* C16: the value extracted from a volume file is a single number, the
\* maximum of its rows (its only row when it has one): the extraction of
\* well-named files ends without error and holds that number for every file.
C16_VolumeIsLargestRow ==
  /\ pc # "error"
  /\ pc = "i2_vol_done" =>
       \A i \in 1..Len(glob_vol) :
         DictGet(vol_dict, I2IdentityOf(glob_vol[i])) = << LargestRow(glob_vol[i]) >>
  /\ pc = "od_vol" =>
       \A i \in 1..Len(glob_vol) :
         Col(vol, DictGet(vol_files_dict, glob_vol[i].name)) = << fullvol - LargestRow(glob_vol[i]) >>

(***************************************************************************)
(* Claims on the order of the merged table (MergeSpec)                     *)
(***************************************************************************)
\* the labels of the rows of a tidy table, each once, in the order of the rows
OrgLabels(tidy) == Dedup([ r \in 1..Len(tidy) |-> tidy[r][1] ])

\* the organoids of the renumbered sheets: group after group in the order of
\* reference, inside a group replicate after replicate, inside a replicate in
\* the order of its sheet
OrgsInReferenceOrder(sheets, reference) ==
  LET all == OrgLabels(Flatten(sheets))
  IN  Flatten([ g \in 1..Len(reference) |->
                  SelectSeq(all, LAMBDA org : Split(org, separator)[1] = reference[g]) ])

\* C17: the rows of the merged tidy distance table are grouped by group in
\* the reference group order, inside a group by replicate and then by
\* organoid, whatever groups the last replicate holds: every row of every
\* replicate is there, and the organoids follow that order.
C17_MergedRowsInReferenceOrder ==
  pc = "mg_done" =>
    /\ Len(data_dts) = Len(Flatten(data_by_exp))
    /\ OrgLabels(data_dts) = OrgsInReferenceOrder(data_by_exp, ordered_group_names)

(***************************************************************************)
(* Claims on rm_outliers applied twice (OutlierSpec)                       *)
(***************************************************************************)
GiOutliersRemoved == pc \in { "cn", "thresholds", "averages", "normalize", "done" }

\* C18: rm_outliers applied to its own output, the bound still read from the
\* descriptives of the raw distances, returns that output unchanged, for the
\* raw distances and for the min-shifted distances.
C18_OutlierRemovalIdempotent ==
  GiOutliersRemoved =>
    /\ rm_outliers(dts_dict_rmout, dts_df_descriptives) = dts_dict_rmout
    /\ rm_outliers(normfirst_dts_dict_rmout, dts_df_descriptives) = normfirst_dts_dict_rmout

\* an organoid of which rm_outliers removed a distance and kept others
C18_Witness ==
  /\ GiOutliersRemoved
  /\ \E i \in 1..Len(dts_dict) :
       LET kept == DictGet(dts_dict_rmout, dts_dict[i][1])
       IN  /\ kept # << >>
           /\ Len(kept) < Len(dts_dict[i][2])
           /\ DictGet(rm_outliers(dts_dict_rmout, dts_df_descriptives), dts_dict[i][1]) = kept

(***************************************************************************)
(* Claims on the folder names of Data (FolderSpec)                         *)
(***************************************************************************)
\* the tokens of a folder name made of "group" or of "org" and digits only
NumberedTokens(name, prefix) ==
  SelectSeq(Tail(Split(name, separator)),
            LAMBDA t : StartsWith(t, prefix) /\ ~int_raises(DropFirst(t, Len(prefix))))

\* C19: for a folder name with a leading date, one token group<G> and one
\* token org<N>, the constructor ends with org_str the org token, org_num N,
\* group_str the group token and group_num G, whatever the other tokens are
\* and wherever the two tokens stand.
C19_FolderTokensFound ==
  pc # "data_init" =>
    LET gt == NumberedTokens(data_path, << "g", "r", "o", "u", "p" >>)
        ot == NumberedTokens(data_path, OrgPrefix)
    IN  (Len(gt) = 1 /\ Len(ot) = 1) =>
          /\ pc = "data_done"
          /\ group_str = gt[1] /\ group_num = int(DropFirst(gt[1], 5))
          /\ org_str = ot[1] /\ org_num = int(DropFirst(ot[1], 3))

(***************************************************************************)
(* Claims on comb_df_by_group (CombineSpec)                                *)
(***************************************************************************)
\* the organoid column org of table has a cell in the combined column g
ContributesTo(org, g) ==
  /\ HasCol(df_comb, g)
  /\ \E r \in 1..Len(org.vals) :
       ~IsNaN(org.vals[r]) /\ InList(org.vals[r], Col(df_comb, g))

\* C20: the combined column of group g holds a value of an organoid only if
\* the group of the organoid is g exactly, also when g is a prefix of the name
\* of another group, and every organoid contributes to exactly one column.
C20_CombinedColumnOfOwnGroupOnly ==
  pc = "comb_done" =>
    \A c \in 1..Len(comb_df) :
      \A g \in Range(comb_group_names) :
        ContributesTo(comb_df[c], g) <=> GroupBySlice(comb_df[c].name) = g

(***************************************************************************)
(* Claims on the cells above a statistic (Spec)                            *)
(***************************************************************************)
GiGreaterCounted == pc \in { "cn", "thresholds", "averages", "normalize", "done" }

\* the number of cells of a column above the column's own statistic
CountAboveOwn(vals, stat) ==
  Len(SelectSeq(vals, LAMBDA x : AboveStat(x, my_describe(vals), stat)))

\* the position of column c among the columns of its group in table
RankInGroup(table, c) ==
  Cardinality({ b \in 1..c : DropLast(table[b].name, 5) = DropLast(table[c].name, 5) })

\* C21: for every statistic of stats_list and every organoid, the entry of the
\* organoid in the table of the cells above the statistic is the number of its
\* distances strictly greater than its own value of the statistic, whatever
\* the discovery order of the files and the numbering of the organoids.
C21_CellsAboveOwnStatistic ==
  GiGreaterCounted =>
    \A k \in 1..Len(stats_list) :
      \A c \in 1..Len(dts_df) :
        LET g == DropLast(dts_df[c].name, 5)
        IN  /\ HasCol(cn_greater_dfs[k], g)
            /\ Col(cn_greater_dfs[k], g)[RankInGroup(dts_df, c)]
                 = CountAboveOwn(dts_df[c].vals, stats_list[k])

(***************************************************************************)
(* Claims on two exports of one organoid (DuplicateSpec)                   *)
(***************************************************************************)
\* table has one column only for the identity of f, with the values expected
SingleColumnIs(table, f, expected) ==
  /\ Cardinality({ c \in 1..Len(table) : table[c].name = IdentityOf(f) }) = 1
  /\ DropNaN(Col(table, IdentityOf(f))) = expected

\* C22: when two discovered files parse to the same identity, the table built
\* has a single column for it, with the values of the file discovered first;
\* the values of the later file never replace them.
C22_FirstFileOfAnIdentityWins ==
  /\ (GiBuilt \/ I2Built) =>
       \A i, j \in 1..Len(glob_dts) :
         (i < j /\ IdentityOf(glob_dts[i]) = IdentityOf(glob_dts[j])) =>
           SingleColumnIs(dts_df, glob_dts[i], NonNegative(glob_dts[i].data))
  /\ \A i, j \in 1..Len(filenames_dict) :
       (i < j /\ filenames_dict[i][2] = filenames_dict[j][2]) =>
         /\ ExBuilt
         /\ SingleColumnIs(dts, glob_dts[i], ReducedByMin(NonNegative(glob_dts[i].data)))

(***************************************************************************)
(* Claims on a group without an observation in the reference subset        *)
(***************************************************************************)
\* the column of label in table has a cell that is not missing
HasObservation(table, label) ==
  HasCol(table, label) /\ DropNaN(Col(table, label)) # << >>

\* the distances of the organoids of the reference group of the invasion
\* threshold
ReferenceDistances ==
  Flatten([ c \in 1..Len(dts) |->
              IF GroupBySlice(dts[c].name) = invasion_thresh_group
              THEN DropNaN(dts[c].vals) ELSE << >> ])

\* C23: a construction that normalizes a group without an observation at the
\* first time point, or that derives the invasion threshold from a reference
\* group without an observation, ends with an error: once the constructor
\* has returned, every group of the first time point has a count and the
\* reference group has a distance.
C23_NoBaselineFailsConstruction ==
  /\ pc = "done" =>
       \A k \in 1..Len(groups_order) :
         ~Contains(groups_order[k], FinalTimepointTag) =>
           HasObservation(cn_dfcomb, groups_order[k])
  /\ pc = "ex_done" => ReferenceDistances # << >>

(***************************************************************************)
(* Claims on the observations of the merged table (MergeSpec)              *)
(***************************************************************************)
\* the distances of the rows of organoid org, in row order
DistancesOf(rows, org) ==
  LET own == SelectSeq(rows, LAMBDA row : row[1] = org)
  IN  [ r \in 1..Len(own) |-> own[r][2] ]

\* the distances of rows that are among wanted, in row order
DistancesAmong(rows, wanted) ==
  LET own == SelectSeq(rows, LAMBDA row : row[2] \in wanted)
  IN  [ r \in 1..Len(own) |-> own[r][2] ]

\* C24: the merged tidy distance table holds every observation of every
\* replicate exactly once: it has as many rows as the sheets of the
\* replicates together, and the distances of every organoid of every
\* replicate stand in it in the order of the sheet, whatever the replicates
\* hold.
C24_MergedHoldsEveryObservationOnce ==
  pc = "mg_done" =>
    /\ Len(data_dts) = SumSeq([ k \in 1..Len(data_locations) |-> Len(data_locations[k]) ])
    /\ \A k \in 1..Len(data_locations) :
         \A org \in Range(OrgNames(data_locations[k])) :
           LET own == DistancesOf(data_locations[k], org)
           IN  DistancesAmong(data_dts, Range(own)) = own

(***************************************************************************)
(* Claims on an export without a data row (DataSpec)                       *)
(***************************************************************************)
\* C25: extracting a matched export that has no data row fails with an
\* error, so that no built table has a column for it: once the distance
\* table of GbmInvasion or of extract.GbmCellData is built, every discovered
\* export has at least one row.
C25_ExportWithoutRowsFailsExtraction ==
  (GiBuilt \/ ExBuilt) => \A i \in 1..Len(glob_dts) : glob_dts[i].data # << >>

(***************************************************************************)
(* Claims on the index numeral of an organoid (IndexSpec)                  *)
(***************************************************************************)
\* the organoid index numerals of the folders
IndexNumerals == 1..10

\* identity names an organoid of group g
IsOrganoidOf(identity, g) ==
  \E o \in IndexNumerals : identity = Join(<< g, OrgToken(o) >>)

\* the organoid identity of table has exactly one column and comb has a column
\* for g that holds every value of values
OneColumnAndCombined(table, comb, identity, g, values) ==
  /\ Cardinality({ c \in 1..Len(table) : table[c].name = identity }) = 1
  /\ HasCol(comb, g)
  /\ \A r \in 1..Len(values) : InList(values[r], Col(comb, g))

\* C26: every extracted organoid whose group is in the declared order is
\* exactly one column of the per-organoid table and its values are in the
\* combined column of its group, for every index numeral, org10 included.
C26_EveryOrganoidIsAColumn ==
  /\ I2Built =>
       \A k \in 1..Len(dts_dict) : \A g \in 1..Len(ordered_groups) :
         IsOrganoidOf(dts_dict[k][1], ordered_groups[g]) =>
           OneColumnAndCombined(dts_df, dts_dfcomb, dts_dict[k][1], ordered_groups[g],
                                dts_dict[k][2])
  /\ ExCombined =>
       \A k \in 1..Len(filenames_dict) : \A g \in 1..Len(ordered_group_names) :
         IsOrganoidOf(filenames_dict[k][2], ordered_group_names[g]) =>
           OneColumnAndCombined(dts, dts_bygroup, filenames_dict[k][2],
                                ordered_group_names[g],
                                DropNaN(Col(dts, filenames_dict[k][2])))

(***************************************************************************)
(* Claims on the tidy rows of each time point (Spec)                       *)
(***************************************************************************)
\* the rows of dts_df_tidy of the organoids whose day token is time \o days
TidyRowsAt(time) ==
  SelectSeq(dts_df_tidy, LAMBDA row : InList(time \o days, Split(row[1], separator)))

\* C27: after construction with two time points, dts_df_tidy_time1 holds
\* exactly the tidy rows of the organoids of the first time point and
\* dts_df_tidy_time2 exactly those of the second; no row is in both and every
\* row of dts_df_tidy is in one of them.
C27_TidyRowsByTimepoint ==
  (GiBuilt /\ time_points # << >>) =>
    /\ dts_df_tidy_time1 = << TidyRowsAt(time1) >>
    /\ dts_df_tidy_time2 = << TidyRowsAt(time2) >>
    /\ \A r \in 1..Len(dts_df_tidy) :
         InList(dts_df_tidy[r], TidyRowsAt(time1)) # InList(dts_df_tidy[r], TidyRowsAt(time2))

(***************************************************************************)
(* Claims on the baseline of the normalized count tables (Spec)            *)
(***************************************************************************)
\* table is counts divided by the averages of baseline, group by group
DividedBy(table, counts, baseline) ==
  table = norm_to_avg2days(baseline, counts, groups_order)

\* C28: each normtot table (total cells, cells above the threshold, cells
\* below it) is its count table divided by the group's average total cell
\* count at the first time point and each normless table is its count table
\* divided by the group's average count below the threshold; the baseline
\* never depends on the count table that is normalized.
C28_BaselineIndependentOfCountTable ==
  pc = "done" =>
    /\ DividedBy(cn_dfcomb_normtot, cn_dfcomb, cn_dictcomb_avg)
    /\ DividedBy(g_dfcomb_normtot, g_dfcomb, cn_dictcomb_avg)
    /\ DividedBy(l_dfcomb_normtot, l_dfcomb, cn_dictcomb_avg)
    /\ DividedBy(cn_dfcomb_normless, cn_dfcomb, l_dictcomb_avg)
    /\ DividedBy(g_dfcomb_normless, g_dfcomb, l_dictcomb_avg)
    /\ DividedBy(l_dfcomb_normless, l_dfcomb, l_dictcomb_avg)

(***************************************************************************)
(* Claims on the labels of the Kruskal-Wallis results (StatsSpec)          *)
(***************************************************************************)
\* C29: krus(list_of_dfs) labels the result of the j-th table with the j-th
\* name of stats_list, for every j, also when the test on an earlier table
\* of the list raised and the table was passed over: every entry of results
\* is the result of the table at the position its label has in stats_list.
C29_ResultLabelledByPosition ==
  pc = "krus_done" =>
    \A e \in 1..Len(results) :
      \E j \in 1..Len(list_of_dfs) :
        /\ results[e][1] = stats_list[j]
        /\ results[e][2] = cols_to_list(list_of_dfs[j])

(***************************************************************************)
(* Claims on the values a step is handed (Spec)                            *)
(***************************************************************************)
\* C30: once an extracted per-organoid sequence or a built table exists, no
\* later step of the pipeline changes it: the filter of the negative values
\* leaves the extracted sequences of dts_dict as they are and delivers its
\* result as a new value, and no step changes dts_df or dts_df_tidy.
C30_ExtractedValuesNeverChange ==
  [][/\ dts_dict # << >> => dts_dict' = dts_dict
     /\ dts_df # << >> => dts_df' = dts_df
     /\ dts_df_tidy # << >> => dts_df_tidy' = dts_df_tidy]_vars

=============================================================================
